---- MODULE Spec2Model ----
(***************************************************************************)
(* A model of the flowevents publish/subscribe engine:                     *)
(*   publishers/publisher.py   EventPublisher                              *)
(*   publishers/multi.py       MultiPublisher                              *)
(*   subscribers/subscriptions.py  EventSubscription                       *)
(*   subscribers/multi.py      MultiSubscriber                             *)
(*                                                                         *)
(* Listener objects are identified by small integers.  A weak reference is *)
(* identified with its referent: weakref.ref(x) of one object is one set   *)
(* element, and it is dead once x is no longer in `alive`.  Garbage        *)
(* collection is the action Collect: an object nothing refers to strongly  *)
(* may be collected at any moment, also while a dispatch is running.       *)
(***************************************************************************)
EXTENDS Integers, Sequences, FiniteSets, TLC

VARIABLES
    listeners,              \* EventPublisher._listeners, per publisher object
    alive,                  \* listener objects not collected yet
    held,                   \* listener objects the caller holds a reference to
    callback,               \* FunctionalEventSubscriber._callback, per listener object
    stack,                  \* the running trigger_event calls, innermost last
    error,                  \* how the caller's last call ended: "none" (it ran through), the error
                            \* it raised, or the early return it took
    registered,             \* per publisher: added and not removed since (history)
    delivered,              \* per publisher and steady listener: calls received in finished dispatches
    ntrig,                  \* per publisher: outermost trigger_event calls that returned normally
    steady,                 \* per publisher: registered before its first trigger and ever since
    publishers,             \* MultiPublisher._publishers: the publications that have a publisher
    functional_subscribers, \* MultiPublisher._functional_subscribers
    cbreg,                  \* <<publication, callback>> added and not removed since (history)
    subscribers,            \* MultiSubscriber._subscribers
    subreg,                 \* per <<publisher, descriptor>>: what was last done to the pair (history)
    handles,                \* the caller's last EventSubscription.subscribe: what it returned, which
                            \* handles are not unsubscribed yet, the publisher's listeners before it (history)
    records,                \* what the logger of ReportingEventSubscriber was given, oldest first
    event_log,              \* the history of the tracking subscriber, newest last
    arrived,                \* the events it received since it was made or cleared (history)
    waiting,                \* its pending waiters, each with the type it waits for
    results,                \* per waiter: how its wait ended, and with which event
    readded,                \* listeners that add_listener was given while they were registered (history)
    bound,                  \* per listener made by EventSubscription.subscribe: the arguments
                            \* functools.partial fixed in its callback
    built,                  \* the EventSubscription objects constructed, in construction order
    returned                \* per constructed EventSubscription: what the last call on it returned

\* the state of the subscribers that report and track events
tracker == <<event_log, arrived, waiting, results>>

sinks == <<records, tracker>>

\* the state of the containers and of those subscribers
containers == <<publishers, functional_subscribers, cbreg, subscribers, subreg, handles, sinks,
                readded, bound, built, returned>>

vars == <<listeners, alive, held, callback, stack, error, registered,
          delivered, ntrig, steady, containers>>

(***************************************************************************)
(* Bounds of the model.                                                    *)
(***************************************************************************)
NumObjs == 3
MaxTriggers == 2
PoolSize == 2
MaxRecords == 2
Capacity == 2
MaxReceived == 3
NumWaiters == 2
MaxDepth == 2

Objs == 1..NumObjs
None == 0
NoCallback == "none"

(***************************************************************************)
(* Publications and payloads.                                              *)
(***************************************************************************)
Event1Pub == [event_tag |-> 1, event_class |-> "Event1"]
Event2Pub == [event_tag |-> 2, event_class |-> "Event2"]

Payloads == {[cls |-> "Event1", message |-> "x"], [cls |-> "Event2", message |-> "x"]}

Publishers == {"P1", "P2"}

\* EventPublisher.__init__: the publication of each publisher object.
Publication(P) == IF P = "P1" THEN Event1Pub ELSE Event2Pub

\* isinstance(message, self._publication.event_class)
IsInstance(message, event_class) == message.cls = event_class

(***************************************************************************)
(* EventPublisher                                                          *)
(***************************************************************************)
\* a sweep with its test inverted
RemoveDeadListenersInverted(refs, live) == {ref \in refs : ref \notin live}

\* _remove_dead_listeners: {ref for ref in self._listeners if ref() is not None}
RemoveDeadListeners(refs, live) == {ref \in refs : ref \in live}

\* an add_listener that sweeps on every call
AddListenerRefsSweeping(refs, listener, gc, live) ==
    RemoveDeadListeners(refs \cup {listener}, live)

\* a set that drops a reference it is given a second time
AddListenerRefsToggle(refs, listener, gc, live) ==
    IF listener \in refs THEN refs \ {listener} ELSE refs \cup {listener}

\* add_listener: the set after adding weakref.ref(listener); gc is the outcome of
\* random.random() < ADD_LISTENER_GC_PROBABILITY
AddListenerRefs(refs, listener, gc, live) ==
    IF gc THEN RemoveDeadListeners(refs \cup {listener}, live)
          ELSE refs \cup {listener}

\* a remove_listener that sweeps and discards nothing
RemoveListenerRefsSweepOnly(refs, listener, live) == RemoveDeadListeners(refs, live)

\* a remove_listener that does not sweep
RemoveListenerRefsNoSweep(refs, listener, live) == refs \ {listener}

\* remove_listener: discard the reference, then sweep
RemoveListenerRefs(refs, listener, live) ==
    RemoveDeadListeners(refs \ {listener}, live)

\* get_listeners: sweep, then the referents that are alive
GetListeners(refs, live) ==
    {ref \in RemoveDeadListeners(refs, live) : ref \in live}

\* the call without the publication's tag
CallArgsNoTag(P, message) == <<message, None, P>>

\* the arguments trigger_event passes to a listener
CallArgs(P, message) == <<message, Publication(P).event_tag, P>>

NoCalls == [l \in Objs |-> <<>>]

\* every enumeration order of a set: iterating a Python set visits it in some order
Orders(S) ==
    {seq \in [1..Cardinality(S) -> S] : \A i, j \in 1..Cardinality(S) : i # j => seq[i] # seq[j]}

\* objects some running trigger_event still names in its local variable `listener`
FrameLocals == {stack[i].cur : i \in 1..Len(stack)} \ {None}

\* the callbacks given to MultiPublisher.add_listener_with_callback
Callbacks == {"cb1", "cb2"}

\* the subscriptions declared on the MultiSubscriber's class: event1 has one tag,
\* event2 a list of two
Descriptors == {"event1", "event2"}

\* what a listener object wraps: nothing (a listener class of the caller), a
\* callback, or the callback of a subscription bound to its owner
CallbackIds == {NoCallback} \cup Callbacks \cup Descriptors

\* MultiSubscriber.__init__: defaultdict(dict), no key yet
NoSubscribers == [P \in {} |-> [d \in {} |-> <<>>]]

\* no add_subscription or remove_subscription call yet
NoHistory == [pair \in Publishers \X Descriptors |-> "never"]

\* no EventSubscription.subscribe call by the caller yet
NoHandles ==
    [d |-> "none", P |-> "none", list |-> <<>>, left |-> {}, before |-> {}, fresh |-> TRUE]

\* the waits a caller may start on the tracking subscriber
Waiters == 1..NumWaiters

\* no event
NoEvent == [cls |-> "none", id |-> 0]

\* a wait that has not ended
NotEnded == [state |-> "none", event |-> NoEvent]

\* ReportingEventSubscriber before its first call, nothing logged yet, and the
\* tracking subscriber as constructed: empty history, no waiter
NoSinks ==
    /\ records = <<>>
    /\ event_log = <<>>
    /\ arrived = <<>>
    /\ waiting = [w \in {} |-> "none"]
    /\ results = [w \in Waiters |-> NotEnded]
    /\ readded = {}
    /\ bound = [l \in Objs |-> <<>>]
    /\ built = <<>>
    /\ returned = <<>>

\* the listener objects MultiPublisher._functional_subscribers refers to
FunctionalRefs == {functional_subscribers[cb] : cb \in Callbacks} \ {None}

\* a registry whose lists keep nothing alive
SubscriberRefsNone == {}

\* the listener objects the lists of MultiSubscriber._subscribers refer to
SubscriberRefs ==
    UNION {UNION {{subscribers[P][d][k] : k \in DOMAIN subscribers[P][d]} :
                    d \in DOMAIN subscribers[P]} : P \in DOMAIN subscribers}

\* objects something refers to strongly
Retained == held \cup FrameLocals \cup FunctionalRefs \cup SubscriberRefs

\* a type check that never fails
InvalidEventTypeNever(P, message) == FALSE

\* trigger_event's type check: not isinstance(message, self._publication.event_class)
InvalidEventType(P, message) == ~IsInstance(message, Publication(P).event_class)

\* the frame of a trigger_event call that enters its loop. History kept with it:
\* must, the listeners registered and strongly held when the dispatch starts;
\* removed, the listeners that another listener, itself registered at the start,
\* removed during this dispatch; added, the listeners outside the snapshot that a
\* listener added during this dispatch; nested, how many dispatches the listeners
\* of this one started; heard, how often each wrapped callback ran;
\* loose, the live listeners of the snapshot nothing refers to strongly any more;
\* asked, the publication the caller named
NewFrame(P, message, order) ==
    [pub |-> P, message |-> message, todo |-> order, cur |-> None,
     asked |-> Publication(P),
     must |-> registered[P] \cap held,
     loose |-> {order[i] : i \in DOMAIN order} \ Retained,
     calls |-> NoCalls, heard |-> [c \in CallbackIds |-> 0],
     raised |-> {}, logs |-> 0, removed |-> {}, added |-> {}, nested |-> 0]

\* trigger_event up to its loop: the type check raises ValueError("Invalid event
\* type ...") before anything else, otherwise sweep and copy
TriggerEventFor(P, message, asked) ==
    /\ stack = <<>>
    /\ IF InvalidEventType(P, message)
       THEN /\ error' = "InvalidEventType"
            /\ UNCHANGED <<listeners, stack>>
       ELSE /\ ntrig[P] < MaxTriggers
            /\ error' = "none"
            /\ LET swept == RemoveDeadListeners(listeners[P], alive) IN
                  /\ listeners' = [listeners EXCEPT ![P] = swept]
                  /\ \E order \in Orders(swept) :
                        stack' = Append(stack, [NewFrame(P, message, order)
                                                   EXCEPT !.asked = asked])
    /\ UNCHANGED <<alive, held, callback, registered, delivered, ntrig, steady,
                   containers>>

\* EventPublisher.trigger_event called on the publisher itself
TriggerEvent(P, message) == TriggerEventFor(P, message, Publication(P))

Top == stack[Len(stack)]

SetTop(f) == [stack EXCEPT ![Len(stack)] = f]

\* one round of the loop whose weak reference is dead: `continue`
DispatchDead ==
    /\ stack # <<>>
    /\ Top.todo # <<>>
    /\ Head(Top.todo) \notin alive
    /\ stack' = SetTop([Top EXCEPT !.todo = Tail(@), !.cur = None])
    /\ UNCHANGED <<listeners, alive, held, callback, error, registered,
                   delivered, ntrig, steady, containers>>

\* _log_exception: the error records of a frame after one more failure
LogException(logs) == logs + 1

\* a loop with no try/except around the call: the first failure ends the dispatch
AfterCallUncaught(f, listener, failed) ==
    [f EXCEPT !.todo = IF failed THEN <<>> ELSE Tail(@), !.cur = listener,
              !.calls[listener] = Append(@, CallArgs(f.pub, f.message)),
              !.heard[callback[listener]] = @ + 1,
              !.raised = IF failed THEN @ \cup {listener} ELSE @,
              !.logs = IF failed THEN LogException(@) ELSE @]

\* the frame after listener(message, tag, self) was called; failed: it raised, and
\* the except branch called _log_exception
AfterCall(f, listener, failed) ==
    [f EXCEPT !.todo = Tail(@), !.cur = listener,
              !.calls[listener] = Append(@, CallArgs(f.pub, f.message)),
              !.heard[callback[listener]] = @ + 1,
              !.raised = IF failed THEN @ \cup {listener} ELSE @,
              !.logs = IF failed THEN LogException(@) ELSE @]

\* one round of the loop: the listener returns or raises
DispatchCall(failed) ==
    /\ stack # <<>>
    /\ Top.todo # <<>>
    /\ Head(Top.todo) \in alive
    /\ stack' = SetTop(AfterCall(Top, Head(Top.todo), failed))
    /\ UNCHANGED <<listeners, alive, held, callback, error, registered,
                   delivered, ntrig, steady, containers>>

\* a loop over the live set instead of a copy: a removed listener is not visited
SnapshotAfterRemoveLive(todo, other) == SelectSeq(todo, LAMBDA ref : ref # other)

\* listeners = self._listeners.copy(): what is left to visit after a
\* remove_listener(other) during the loop; the copy is not touched
SnapshotAfterRemove(todo, other) == todo

\* one round of the loop: the listener calls remove_listener(other) on the
\* publisher that is dispatching, then returns
DispatchCallRemoving(other) ==
    /\ stack # <<>>
    /\ Top.todo # <<>>
    /\ Head(Top.todo) \in alive
    /\ other \in held \cup {Head(Top.todo)}
    /\ LET P == Top.pub IN
       /\ listeners' = [listeners EXCEPT ![P] = RemoveListenerRefs(@, other, alive)]
       /\ registered' = [registered EXCEPT ![P] = @ \ {other}]
       /\ steady' = [steady EXCEPT ![P] = @ \ {other}]
       /\ delivered' = [delivered EXCEPT ![P][other] = 0]
    /\ stack' = SetTop([AfterCall(Top, Head(Top.todo), FALSE) EXCEPT
                            !.todo = SnapshotAfterRemove(@, other),
                            !.removed = IF other # Head(Top.todo) /\ Head(Top.todo) \in Top.must
                                        THEN @ \cup {other} ELSE @])
    /\ UNCHANGED <<alive, held, callback, error, ntrig, containers>>

\* a loop over the live set instead of a copy: an added listener is visited too
SnapshotAfterAddLive(todo, other) ==
    IF \E k \in DOMAIN todo : todo[k] = other THEN todo ELSE Append(todo, other)

\* listeners = self._listeners.copy(): what is left to visit after an
\* add_listener(other) during the loop; the copy is not touched
SnapshotAfterAdd(todo, other) == todo

\* a live listener was in the copy the loop of frame f runs over: the loop has
\* called it or has it still to visit
InSnapshot(f, listener) ==
    \/ \E k \in DOMAIN f.todo : f.todo[k] = listener
    \/ f.calls[listener] # <<>>

\* one round of the loop: the listener calls add_listener(other) on the
\* publisher that is dispatching, then returns; add_listener sweeps or not
DispatchCallAdding(other) ==
    /\ stack # <<>>
    /\ Top.todo # <<>>
    /\ Head(Top.todo) \in alive
    /\ other \in held \cup {Head(Top.todo)}
    /\ LET P == Top.pub IN
       /\ \E refs \in {AddListenerRefs(listeners[P], other, gc, alive) : gc \in BOOLEAN} :
             listeners' = [listeners EXCEPT ![P] = refs]
       /\ registered' = [registered EXCEPT ![P] = @ \cup {other}]
    /\ stack' = SetTop([AfterCall(Top, Head(Top.todo), FALSE) EXCEPT
                            !.todo = SnapshotAfterAdd(@, other),
                            !.added = IF InSnapshot(Top, other)
                                      THEN @ ELSE @ \cup {other}])
    /\ UNCHANGED <<alive, held, callback, error, delivered, ntrig, steady, containers>>

\* trigger_event returns: the loop is over. counted: the history counters ntrig
\* and delivered are kept (they are bounded by MaxTriggers)
TriggerReturn(counted) ==
    /\ stack # <<>>
    /\ Top.todo = <<>>
    /\ stack' = SubSeq(stack, 1, Len(stack) - 1)
    /\ IF counted /\ Len(stack) = 1
       THEN /\ ntrig' = [ntrig EXCEPT ![Top.pub] = @ + 1]
            /\ delivered' = [delivered EXCEPT ![Top.pub] =
                  [l \in Objs |-> IF l \in steady[Top.pub]
                                  THEN @[l] + Len(Top.calls[l]) ELSE 0]]
       ELSE UNCHANGED <<ntrig, delivered>>
    /\ UNCHANGED <<listeners, alive, held, callback, error, registered, steady,
                   containers>>

\* add_listener
AddListener(P, listener, gc) ==
    /\ stack = <<>>
    /\ listener \in held
    /\ error' = "none"
    /\ listeners' = [listeners EXCEPT ![P] = AddListenerRefs(@, listener, gc, alive)]
    /\ registered' = [registered EXCEPT ![P] = @ \cup {listener}]
    /\ steady' = [steady EXCEPT ![P] = IF ntrig[P] = 0 THEN @ \cup {listener} ELSE @]
    /\ UNCHANGED <<alive, held, callback, stack, delivered, ntrig, containers>>

\* remove_listener
RemoveListener(P, listener) ==
    /\ stack = <<>>
    /\ listener \in held
    /\ error' = "none"
    /\ listeners' = [listeners EXCEPT ![P] = RemoveListenerRefs(@, listener, alive)]
    /\ registered' = [registered EXCEPT ![P] = @ \ {listener}]
    /\ steady' = [steady EXCEPT ![P] = @ \ {listener}]
    /\ delivered' = [delivered EXCEPT ![P][listener] = 0]
    /\ UNCHANGED <<alive, held, callback, stack, ntrig, containers>>

\* get_listeners: its sweep (the list it returns is GetListeners)
GetListenersCall(P) ==
    /\ stack = <<>>
    /\ error' = "none"
    /\ listeners' = [listeners EXCEPT ![P] = RemoveDeadListeners(@, alive)]
    /\ UNCHANGED <<alive, held, callback, stack, registered, delivered, ntrig, steady,
                   containers>>

\* the caller lets go of its reference to a listener
Drop(listener) ==
    /\ stack = <<>>
    /\ listener \in held
    /\ held' = held \ {listener}
    /\ steady' = [P \in Publishers |-> steady[P] \ {listener}]
    /\ delivered' = [P \in Publishers |-> [delivered[P] EXCEPT ![listener] = 0]]
    /\ UNCHANGED <<listeners, alive, callback, stack, error, registered, ntrig, containers>>

\* the garbage collector frees an object nothing refers to strongly
Collect(listener) ==
    /\ listener \in alive \ Retained
    /\ alive' = alive \ {listener}
    /\ callback' = [callback EXCEPT ![listener] = NoCallback]
    /\ bound' = [bound EXCEPT ![listener] = <<>>]
    /\ UNCHANGED <<listeners, held, stack, error, registered, delivered, ntrig, steady,
                   publishers, functional_subscribers, cbreg, subscribers, subreg,
                   handles, sinks, readded, built, returned>>

\* the listener objects a container or a subscription may have made at one time
Pool == 1..PoolSize

\* object identities no live object and no weak reference uses
FreeObjs == {o \in Pool : o \notin alive /\ \A P \in Publishers : o \notin listeners[P]}

\* the identity of the next object created
NewObj == CHOOSE o \in FreeObjs : \A other \in FreeObjs : o <= other

(***************************************************************************)
(* One EventPublisher, P1, and NumObjs listeners the caller made.          *)
(***************************************************************************)
InitPublisher ==
    /\ listeners = [P \in Publishers |-> {}]
    /\ alive = Objs
    /\ held = Objs
    /\ callback = [l \in Objs |-> NoCallback]
    /\ stack = <<>>
    /\ error = "none"
    /\ registered = [P \in Publishers |-> {}]
    /\ delivered = [P \in Publishers |-> [l \in Objs |-> 0]]
    /\ ntrig = [P \in Publishers |-> 0]
    /\ steady = [P \in Publishers |-> {}]
    /\ publishers = {}
    /\ functional_subscribers = [cb \in Callbacks |-> None]
    /\ cbreg = {}
    /\ subscribers = NoSubscribers
    /\ subreg = NoHistory
    /\ handles = NoHandles
    /\ NoSinks

\* what the caller, the listeners and the collector can do, apart from returning
\* from trigger_event
PublisherStep ==
    \/ \E l \in Objs, gc \in BOOLEAN : AddListener("P1", l, gc)
    \/ \E l \in Objs : RemoveListener("P1", l)
    \/ GetListenersCall("P1")
    \/ \E m \in Payloads : TriggerEvent("P1", m)
    \/ DispatchDead
    \/ \E failed \in BOOLEAN : DispatchCall(failed)
    \/ \E other \in Objs : DispatchCallRemoving(other)
    \/ \E other \in Objs : DispatchCallAdding(other)
    \/ \E l \in Objs : Drop(l)
    \/ \E l \in Objs : Collect(l)

NextPublisher == PublisherStep \/ TriggerReturn(FALSE)

SpecPublisher == InitPublisher /\ [][NextPublisher]_vars

(***************************************************************************)
(* The same publisher with its triggers and deliveries counted, for at     *)
(* most MaxTriggers triggers.                                              *)
(***************************************************************************)
NextPublisherCounted == PublisherStep \/ TriggerReturn(TRUE)

SpecPublisherCounted == InitPublisher /\ [][NextPublisherCounted]_vars

(***************************************************************************)
(* The same publisher with listeners that call trigger_event on it while   *)
(* they are invoked, to a depth of MaxDepth dispatches.                    *)
(***************************************************************************)
\* a loop over a cursor all dispatches share: the nested loop uses it up
ResumeShared(todo) == <<>>

\* for listener_ref in listeners: the loop of a frame goes on over its own copy
\* when the call returns
Resume(todo) == todo

\* one round of the loop: the listener calls trigger_event(message) on the
\* publisher that is dispatching.  An invalid message raises out of the listener
\* and the loop logs it; otherwise the nested call sweeps, copies and runs its
\* loop while the frame below waits in its call
DispatchCallTriggering(message) ==
    /\ stack # <<>>
    /\ Top.todo # <<>>
    /\ Head(Top.todo) \in alive
    /\ LET P == Top.pub
           listener == Head(Top.todo)
       IN IF InvalidEventType(P, message)
          THEN /\ stack' = SetTop(AfterCall(Top, listener, TRUE))
               /\ UNCHANGED listeners
          ELSE /\ Len(stack) < MaxDepth
               /\ LET swept == RemoveDeadListeners(listeners[P], alive)
                      below == [AfterCall(Top, listener, FALSE) EXCEPT !.todo = Resume(@),
                                                                  !.nested = @ + 1]
                  IN /\ listeners' = [listeners EXCEPT ![P] = swept]
                     /\ \E order \in Orders(swept) :
                           stack' = Append(SetTop(below), NewFrame(P, message, order))
    /\ UNCHANGED <<alive, held, callback, error, registered, delivered, ntrig, steady,
                   containers>>

\* the steps of the loops in flight and their returns
LoopStep ==
    \/ DispatchDead
    \/ \E failed \in BOOLEAN : DispatchCall(failed)
    \/ \E m \in Payloads : DispatchCallTriggering(m)
    \/ TriggerReturn(FALSE)

NextReentrant ==
    \/ \E l \in Objs, gc \in BOOLEAN : AddListener("P1", l, gc)
    \/ \E m \in Payloads : TriggerEvent("P1", m)
    \/ LoopStep
    \/ \E l \in Objs : Drop(l)
    \/ \E l \in Objs : Collect(l)

\* trigger_event is synchronous: a loop in flight takes its next step
SpecReentrant == InitPublisher /\ [][NextReentrant]_vars /\ WF_vars(LoopStep)

(***************************************************************************)
(* The same publisher with a caller that passes a listener to add_listener *)
(* again while it is registered.                                           *)
(***************************************************************************)
\* add_listener for a listener that is registered: weakref.ref(listener) is equal
\* to the reference the set holds
AddListenerAgain(P, listener, gc) ==
    /\ stack = <<>>
    /\ listener \in held \cap registered[P]
    /\ error' = "none"
    /\ listeners' = [listeners EXCEPT ![P] = AddListenerRefs(@, listener, gc, alive)]
    /\ readded' = readded \cup {listener}
    /\ UNCHANGED <<alive, held, callback, stack, registered, delivered, ntrig, steady,
                   publishers, functional_subscribers, cbreg, subscribers, subreg,
                   handles, sinks, bound, built, returned>>

NextRepeatedAdd ==
    \/ \E l \in Objs, gc \in BOOLEAN : l \notin registered["P1"] /\ AddListener("P1", l, gc)
    \/ \E l \in Objs, gc \in BOOLEAN : AddListenerAgain("P1", l, gc)
    \/ \E l \in Objs : RemoveListener("P1", l)
    \/ GetListenersCall("P1")
    \/ \E m \in Payloads : TriggerEvent("P1", m)
    \/ DispatchDead
    \/ \E failed \in BOOLEAN : DispatchCall(failed)
    \/ TriggerReturn(FALSE)
    \/ \E l \in Objs : Drop(l)
    \/ \E l \in Objs : Collect(l)

SpecRepeatedAdd == InitPublisher /\ [][NextRepeatedAdd]_vars

(***************************************************************************)
(* MultiPublisher                                                          *)
(***************************************************************************)
\* publications of the owner's parent class: one under a name the owner class
\* declares again, one under a name the owner class does not declare
OverriddenPub == [event_tag |-> 1, event_class |-> "Event2"]
ParentPub == [event_tag |-> 4, event_class |-> "Event1"]

\* the class of the MultiPublisher and its parent class
OwnerClass == "ChildPublisher"

\* cls.__mro__, without the classes that declare no publication
Mro(cls) == IF cls = "ChildPublisher" THEN <<"ChildPublisher", "BasePublisher">> ELSE <<cls>>

\* cls.__dict__ restricted to the attributes that hold an EventPublication
ClassDict(cls) ==
    IF cls = "ChildPublisher" THEN [event1 |-> Event1Pub, event2 |-> Event2Pub]
    ELSE [event1 |-> OverriddenPub, parent_event |-> ParentPub]

\* MultiPublisher.get_event_definitions: the loop over cls.__dict__.items()
DefinitionsOf(cls) == ClassDict(cls)

\* get_event_definitions().values() of the owner class: event1 and event2
GetEventDefinitions ==
    {DefinitionsOf(OwnerClass)[name] : name \in DOMAIN DefinitionsOf(OwnerClass)}

\* the EventPublisher made for a publication: EventPublisher(publication)
PublisherOf(publication) == IF publication = Event1Pub THEN "P1" ELSE "P2"

\* a publication no class attribute of the owner holds
OtherPub == [event_tag |-> 3, event_class |-> "Event1"]

\* the publications a caller may pass: the owner's own and an undeclared one
AnyPublication == GetEventDefinitions \cup {OtherPub}

\* a membership test that accepts every publication
InvalidPublicationNever(publication) == FALSE

\* publication not in self.get_event_definitions().values()
InvalidPublication(publication) == publication \notin GetEventDefinitions

\* a lookup that finds the publisher of event1 whatever the publication
LookupPublisherFirst(publication) == "P1"

\* self._publishers[publication]
LookupPublisher(publication) == PublisherOf(publication)

\* a lookup that always finds a publisher
HasNoPublisherNever(pubs, publication) == FALSE

\* publication not in self._publishers
HasNoPublisher(pubs, publication) == publication \notin pubs

\* a publisher that is kept although nothing listens
NoListenersLeftNever(refs, live) == FALSE

\* not publisher.get_listeners()
NoListenersLeft(refs, live) == GetListeners(refs, live) = {}

\* a call with a publication that is not declared raises ValueError("Invalid
\* publication ...") and changes nothing
RaiseInvalidPublication ==
    /\ error' = "InvalidPublication"
    /\ UNCHANGED <<listeners, alive, held, callback, stack, registered,
                   delivered, ntrig, steady, containers>>

\* how MultiPublisher.remove_listener ends after its two checks: with the
\* publisher dropped (line 65) or kept
RemovalOutcome(publication, listener) ==
    IF NoListenersLeft(RemoveListenerRefs(listeners[PublisherOf(publication)],
                                          listener, alive), alive)
    THEN "remove_listener: publisher dropped" ELSE "none"

\* a removal that leaves the publisher and the map as they are
RemoveFromPublisherSkipped(publication, listener) ==
    UNCHANGED <<publishers, listeners, registered, steady>>

\* MultiPublisher.remove_listener after its two checks: the publisher's
\* remove_listener, then `del self._publishers[publication]` if get_listeners()
\* is empty.  The set of a publisher that was dropped is gone with it.
RemoveFromPublisher(publication, listener) ==
    LET P == PublisherOf(publication)
        refs == RemoveListenerRefs(listeners[P], listener, alive)
        empty == NoListenersLeft(refs, alive)
    IN  /\ publishers' = IF empty THEN publishers \ {publication} ELSE publishers
        /\ listeners' = [listeners EXCEPT ![P] = IF empty THEN {} ELSE refs]
        /\ registered' = [registered EXCEPT ![P] = IF empty THEN {} ELSE @ \ {listener}]
        /\ steady' = [steady EXCEPT ![P] = IF empty THEN {} ELSE @ \ {listener}]

\* MultiPublisher.add_listener
MPAddListener(publication, listener, gc) ==
    /\ stack = <<>>
    /\ listener \in held
    /\ IF InvalidPublication(publication)
       THEN RaiseInvalidPublication
       ELSE /\ error' = "none"
            /\ publishers' = publishers \cup {publication}
            /\ listeners' = [listeners EXCEPT ![PublisherOf(publication)] =
                                AddListenerRefs(@, listener, gc, alive)]
            /\ registered' = [registered EXCEPT ![PublisherOf(publication)] =
                                @ \cup {listener}]
            /\ steady' = [steady EXCEPT ![PublisherOf(publication)] = @ \cup {listener}]
            /\ UNCHANGED <<alive, held, callback, stack, delivered, ntrig,
                           functional_subscribers, cbreg, subscribers, subreg, handles, sinks, readded, bound, built, returned>>

\* MultiPublisher.remove_listener
MPRemoveListener(publication, listener) ==
    /\ stack = <<>>
    /\ listener \in held
    /\ IF InvalidPublication(publication)
       THEN RaiseInvalidPublication
       ELSE /\ IF HasNoPublisher(publishers, publication)
               THEN /\ error' = "remove_listener: no publisher"
                    /\ UNCHANGED <<listeners, registered, steady, publishers>>
               ELSE /\ error' = RemovalOutcome(publication, listener)
                    /\ RemoveFromPublisher(publication, listener)
            /\ UNCHANGED <<alive, held, callback, stack, delivered, ntrig,
                           functional_subscribers, cbreg, subscribers, subreg, handles, sinks, readded, bound, built, returned>>

\* the key under which add_listener_with_callback keeps the new listener
RetentionKey(publication, cb) == cb

\* MultiPublisher.add_listener_with_callback: a new FunctionalEventSubscriber,
\* kept in _functional_subscribers[callback], then add_listener.  The listener the
\* key held before loses that reference; freed tells whether it is reclaimed at
\* once (reference counting) or later (Collect).
MPAddListenerWithCallback(publication, cb, gc, freed) ==
    /\ stack = <<>>
    /\ IF InvalidPublication(publication)
       THEN RaiseInvalidPublication
       ELSE /\ FreeObjs # {}
            /\ error' = "none"
            /\ LET listener == NewObj
                   old == functional_subscribers[RetentionKey(publication, cb)]
                   kept == [functional_subscribers EXCEPT
                               ![RetentionKey(publication, cb)] = listener]
                   lost == IF freed /\ old # None /\ old \notin held
                              /\ old \notin {kept[c] : c \in Callbacks}
                           THEN {old} ELSE {}
                   live == (alive \cup {listener}) \ lost
               IN  /\ alive' = live
                   /\ callback' = [l \in Objs |-> IF l = listener THEN cb
                                                  ELSE IF l \in lost THEN NoCallback
                                                  ELSE callback[l]]
                   /\ functional_subscribers' = kept
                   /\ publishers' = publishers \cup {publication}
                   /\ listeners' = [listeners EXCEPT ![PublisherOf(publication)] =
                                       AddListenerRefs(@, listener, gc, live)]
            /\ cbreg' = cbreg \cup {<<publication, cb>>}
            /\ UNCHANGED <<held, stack, registered, delivered, ntrig, steady,
                           subscribers, subreg, handles, sinks, readded, bound, built, returned>>

\* MultiPublisher.remove_listener_with_callback
MPRemoveListenerWithCallback(publication, cb) ==
    /\ stack = <<>>
    /\ IF InvalidPublication(publication)
       THEN RaiseInvalidPublication
       ELSE /\ cbreg' = cbreg \ {<<publication, cb>>}
            /\ IF HasNoPublisher(publishers, publication)
               THEN /\ error' = "remove_listener_with_callback: no publisher"
                    /\ UNCHANGED <<listeners, registered, steady, publishers,
                                   functional_subscribers>>
               ELSE /\ IF functional_subscribers[cb] # None
                       THEN /\ error' = RemovalOutcome(publication, functional_subscribers[cb])
                            /\ RemoveFromPublisher(publication, functional_subscribers[cb])
                            /\ functional_subscribers' =
                                  [functional_subscribers EXCEPT ![cb] = None]
                       ELSE /\ error' = "none"
                            /\ UNCHANGED <<listeners, registered, steady, publishers,
                                           functional_subscribers>>
            /\ UNCHANGED <<alive, held, callback, stack, delivered, ntrig,
                           subscribers, subreg, handles, sinks, readded, bound, built, returned>>

\* MultiPublisher.trigger_event
MPTriggerEvent(publication, message) ==
    /\ stack = <<>>
    /\ IF InvalidPublication(publication)
       THEN RaiseInvalidPublication
       ELSE IF HasNoPublisher(publishers, publication)
            THEN /\ error' = "trigger_event: no publisher"
                 /\ UNCHANGED <<listeners, alive, held, callback, stack, registered,
                                delivered, ntrig, steady, containers>>
            ELSE TriggerEventFor(LookupPublisher(publication), message, publication)

(***************************************************************************)
(* One MultiPublisher whose class declares event1 and event2 and whose     *)
(* parent class declares event1 and parent_event, one listener object the  *)
(* caller made, and callbacks cb1 and cb2.                                 *)
(***************************************************************************)
InitMultiPublisher ==
    /\ listeners = [P \in Publishers |-> {}]
    /\ alive = {1}
    /\ held = {1}
    /\ callback = [l \in Objs |-> NoCallback]
    /\ stack = <<>>
    /\ error = "none"
    /\ registered = [P \in Publishers |-> {}]
    /\ delivered = [P \in Publishers |-> [l \in Objs |-> 0]]
    /\ ntrig = [P \in Publishers |-> 0]
    /\ steady = [P \in Publishers |-> {}]
    /\ publishers = {}
    /\ functional_subscribers = [cb \in Callbacks |-> None]
    /\ cbreg = {}
    /\ subscribers = NoSubscribers
    /\ subreg = NoHistory
    /\ handles = NoHandles
    /\ NoSinks

NextMultiPublisher ==
    \/ \E pub \in AnyPublication, l \in Objs, gc \in BOOLEAN : MPAddListener(pub, l, gc)
    \/ \E pub \in AnyPublication, l \in Objs : MPRemoveListener(pub, l)
    \/ \E pub \in AnyPublication, cb \in Callbacks, gc \in BOOLEAN, freed \in BOOLEAN :
          MPAddListenerWithCallback(pub, cb, gc, freed)
    \/ \E pub \in AnyPublication, cb \in Callbacks : MPRemoveListenerWithCallback(pub, cb)
    \/ \E pub \in AnyPublication, m \in Payloads : MPTriggerEvent(pub, m)
    \/ DispatchDead
    \/ DispatchCall(FALSE)
    \/ TriggerReturn(FALSE)
    \/ \E l \in Objs : Drop(l)
    \/ \E l \in Objs : Collect(l)

SpecMultiPublisher == InitMultiPublisher /\ [][NextMultiPublisher]_vars

(***************************************************************************)
(* The same MultiPublisher, an instance of ChildPublisher, also called     *)
(* with the publication that only its parent class declares.               *)
(***************************************************************************)
NextChildPublisher ==
    \/ NextMultiPublisher
    \/ \E l \in Objs, gc \in BOOLEAN : MPAddListener(ParentPub, l, gc)
    \/ \E l \in Objs : MPRemoveListener(ParentPub, l)
    \/ \E m \in Payloads : MPTriggerEvent(ParentPub, m)

SpecChildPublisher == InitMultiPublisher /\ [][NextChildPublisher]_vars

(***************************************************************************)
(* The same MultiPublisher called, for event1, with a publication object   *)
(* the caller constructed itself from the tag and payload type of event1.  *)
(***************************************************************************)
\* invalid_pub = EventPublication(MockEvents.EVENT_1, Event1): an object of its
\* own with the tag and payload type of event1
InvalidPub ==
    [object |-> "invalid_pub", event_tag |-> Event1Pub.event_tag,
     event_class |-> Event1Pub.event_class]

\* what == and hash see of a publication object: its tag and payload type, so
\* `in` and the dict lookups find the declared publication equal to it
PublicationValue(obj) == [event_tag |-> obj.event_tag, event_class |-> obj.event_class]

NextSeparatePublication ==
    \/ \E l \in Objs, gc \in BOOLEAN : MPAddListener(PublicationValue(InvalidPub), l, gc)
    \/ \E l \in Objs : MPRemoveListener(PublicationValue(InvalidPub), l)
    \/ \E cb \in Callbacks, gc \in BOOLEAN, freed \in BOOLEAN :
          MPAddListenerWithCallback(PublicationValue(InvalidPub), cb, gc, freed)
    \/ \E m \in Payloads : MPTriggerEvent(PublicationValue(InvalidPub), m)
    \/ DispatchDead
    \/ DispatchCall(FALSE)
    \/ TriggerReturn(FALSE)
    \/ \E l \in Objs : Drop(l)
    \/ \E l \in Objs : Collect(l)

SpecSeparatePublication == InitMultiPublisher /\ [][NextSeparatePublication]_vars

(***************************************************************************)
(* EventSubscription and MultiSubscriber                                   *)
(***************************************************************************)
\* EventSubscription._get_event_tags: the tag list, or the one tag as a list
GetEventTags(d) ==
    IF d = "event2" THEN <<1, 2>> ELSE IF d = "event0" THEN <<>> ELSE <<1>>

\* the class of each publisher object; MockPublisher is a subclass of EventPublisher
ClassOf(P) == IF P = "P2" THEN "MockPublisher" ELSE "EventPublisher"

\* EventSubscription.publisher_class of each declared subscription
PublisherClass(d) ==
    IF d \in {"event2", "event0"} THEN "MockPublisher" ELSE "EventPublisher"

\* _subscribe / _unsubscribe: not isinstance(publisher, self.publisher_class)
PublisherTypeMismatch(d, P) ==
    ~(PublisherClass(d) = "EventPublisher" \/ ClassOf(P) = PublisherClass(d))

\* the subscriptions a caller may pass: the declared ones, one built with another
\* callback, and event1twin, a second object built with the publisher class, tag
\* and callback of event1
AnyDescriptor == Descriptors \cup {"undeclared", "event1twin"}

\* EventSubscription.callback: the callable the subscription was built with
SubscriptionCallback(d) ==
    IF d = "event1twin" THEN "event1" ELSE d

\* EventSubscription.event_tag_str: str(tag), or the sorted tags in brackets
EventTagStr(d) ==
    IF d = "event2" THEN "[1, 2]" ELSE IF d = "event0" THEN "[]" ELSE "1"

\* EventSubscription.__hash__: hash((publisher_class, event_tag_str, callback))
Hash(d) == <<PublisherClass(d), EventTagStr(d), SubscriptionCallback(d)>>

\* a == b for two EventSubscription objects: the class defines no __eq__, so
\* this is object identity
Equals(a, b) == a = b

\* a membership test that accepts every subscription
NotDefinedNever(d) == FALSE

\* subscription not in self.get_event_definitions().values()
NotDefined(d) == \A x \in Descriptors : ~Equals(d, x)

\* a subscribe that makes one listener whatever the tags
AllocateOne(free, n) == <<CHOOSE x \in free : \A y \in free : x <= y>>

\* the next n objects created, in creation order
RECURSIVE Allocate(_, _)
Allocate(free, n) ==
    IF n = 0 THEN <<>>
    ELSE LET o == CHOOSE x \in free : \A y \in free : x <= y
         IN  <<o>> \o Allocate(free \ {o}, n - 1)

\* the elements of a list
Range(seq) == {seq[k] : k \in DOMAIN seq}

\* self._subscribers[publisher]: reading a missing key of the defaultdict stores {}
Touch(subs, P) ==
    [Q \in DOMAIN subs \cup {P} |-> IF Q \in DOMAIN subs THEN subs[Q] ELSE <<>>]

\* self._subscribers[publisher][subscription] = value
Store(subs, P, d, value) ==
    [Q \in DOMAIN subs |->
        IF Q = P THEN [x \in DOMAIN subs[Q] \cup {d} |-> IF x = d THEN value ELSE subs[Q][x]]
        ELSE subs[Q]]

\* a registry that drops the subscription under every publisher
DeleteEverywhere(subs, P, d) ==
    [Q \in DOMAIN subs |-> [x \in DOMAIN subs[Q] \ {d} |-> subs[Q][x]]]

\* del self._subscribers[publisher][subscription]
Delete(subs, P, d) ==
    [Q \in DOMAIN subs |->
        IF Q = P THEN [x \in DOMAIN subs[Q] \ {d} |-> subs[Q][x]] ELSE subs[Q]]

\* EventSubscription.unsubscribe: publisher.remove_listener(listener) once per tag
RECURSIVE UnsubscribeTags(_, _, _, _)
UnsubscribeTags(refs, tags, listener, live) ==
    IF tags = <<>> THEN refs
    ELSE UnsubscribeTags(RemoveListenerRefs(refs, listener, live), Tail(tags), listener, live)

\* an unsubscribe that leaves the publisher as it is
UnsubscribeNothing(refs, d, listener, live) == refs

Unsubscribe(refs, d, listener, live) == UnsubscribeTags(refs, GetEventTags(d), listener, live)

\* the loop of remove_subscription over the stored listeners
RECURSIVE UnsubscribeAll(_, _, _, _)
UnsubscribeAll(refs, d, stored, live) ==
    IF stored = <<>> THEN refs
    ELSE UnsubscribeAll(Unsubscribe(refs, d, Head(stored), live), d, Tail(stored), live)

\* add_subscription that does not look the pair up first
AlreadySubscribedNever(subs, P, d) == FALSE

\* subscription in self._subscribers[publisher]
AlreadySubscribed(subs, P, d) == P \in DOMAIN subs /\ d \in DOMAIN subs[P]

\* a listener set in which the listeners of one subscription count as one
SubscribeRefsFirstOnly(refs, new, gc, live) ==
    refs \cup {new[k] : k \in DOMAIN new \cap {1}}

\* the publisher's set after EventSubscription.subscribe added the new listeners,
\* one add_listener each; gc tells whether some add_listener swept
SubscribeRefs(refs, new, gc, live) ==
    IF gc THEN RemoveDeadListeners(refs, live) \cup Range(new) ELSE refs \cup Range(new)

\* a call on the MultiSubscriber that raises ValueError before it touches anything
RaiseNotDefined ==
    /\ error' = "SubscriptionNotDefined"
    /\ UNCHANGED <<listeners, alive, held, callback, stack, registered,
                   delivered, ntrig, steady, containers>>

\* the history of a pair after an add_subscription that returned: the first add,
\* an add of a pair added before and not removed since, an add after a removal
AfterAdd(history, P, d) ==
    [history EXCEPT ![<<P, d>>] =
        IF @ = "never" THEN "once" ELSE IF @ = "removed" THEN "afresh" ELSE "again"]

\* the history of a pair after a remove_subscription that found it
AfterRemove(history, P, d) == [history EXCEPT ![<<P, d>>] = "removed"]

\* MultiSubscriber.add_subscription, with EventSubscription.subscribe: one new
\* FunctionalEventSubscriber around partial(callback, self) per tag, each added to
\* the publisher; gc tells whether some add_listener swept
MSAddSubscription(d, P, gc) ==
    /\ stack = <<>>
    /\ IF NotDefined(d) THEN RaiseNotDefined
       ELSE IF AlreadySubscribed(subscribers, P, d)
       THEN /\ error' = "add_subscription: already registered"
            /\ subreg' = AfterAdd(subreg, P, d)
            /\ UNCHANGED <<listeners, alive, callback, subscribers>>
       ELSE IF PublisherTypeMismatch(d, P)
       THEN /\ error' = "PublisherTypeMismatch"
            /\ subscribers' = Touch(subscribers, P)
            /\ UNCHANGED <<listeners, alive, callback, subreg>>
       ELSE /\ Cardinality(FreeObjs) >= Len(GetEventTags(d))
            /\ error' = "none"
            /\ LET new == Allocate(FreeObjs, Len(GetEventTags(d)))
                   live == alive \cup Range(new)
               IN  /\ alive' = live
                   /\ callback' = [l \in Objs |-> IF l \in Range(new) THEN d ELSE callback[l]]
                   /\ listeners' = [listeners EXCEPT ![P] = SubscribeRefs(@, new, gc, alive)]
                   /\ subscribers' = Store(Touch(subscribers, P), P, d, new)
            /\ subreg' = AfterAdd(subreg, P, d)
    /\ UNCHANGED <<held, stack, registered, delivered, ntrig, steady,
                   publishers, functional_subscribers, cbreg, handles, sinks, readded, bound, built, returned>>

\* MultiSubscriber.remove_subscription
MSRemoveSubscription(d, P) ==
    /\ stack = <<>>
    /\ IF NotDefined(d) THEN RaiseNotDefined
       ELSE /\ IF ~AlreadySubscribed(subscribers, P, d)
               THEN /\ error' = "remove_subscription: not registered"
                    /\ subscribers' = Touch(subscribers, P)
                    /\ UNCHANGED <<listeners, subreg>>
               ELSE /\ error' = "none"
                    /\ listeners' = [listeners EXCEPT ![P] =
                          UnsubscribeAll(@, d, subscribers[P][d], alive)]
                    /\ subscribers' = Delete(subscribers, P, d)
                    /\ subreg' = AfterRemove(subreg, P, d)
            /\ UNCHANGED <<alive, callback>>
    /\ UNCHANGED <<held, stack, registered, delivered, ntrig, steady,
                   publishers, functional_subscribers, cbreg, handles, sinks, readded, bound, built, returned>>

(***************************************************************************)
(* One MultiSubscriber that declares event1 and event2, and the publishers *)
(* P1 and P2 it subscribes to; the caller holds all three.                 *)
(***************************************************************************)
InitMultiSubscriber ==
    /\ listeners = [P \in Publishers |-> {}]
    /\ alive = {}
    /\ held = {}
    /\ callback = [l \in Objs |-> NoCallback]
    /\ stack = <<>>
    /\ error = "none"
    /\ registered = [P \in Publishers |-> {}]
    /\ delivered = [P \in Publishers |-> [l \in Objs |-> 0]]
    /\ ntrig = [P \in Publishers |-> 0]
    /\ steady = [P \in Publishers |-> {}]
    /\ publishers = {}
    /\ functional_subscribers = [cb \in Callbacks |-> None]
    /\ cbreg = {}
    /\ subscribers = NoSubscribers
    /\ subreg = NoHistory
    /\ handles = NoHandles
    /\ NoSinks

NextMultiSubscriber ==
    \/ \E d \in AnyDescriptor, P \in Publishers, gc \in BOOLEAN : MSAddSubscription(d, P, gc)
    \/ \E d \in AnyDescriptor, P \in Publishers : MSRemoveSubscription(d, P)
    \/ \E P \in Publishers, m \in Payloads : TriggerEvent(P, m)
    \/ \E failed \in BOOLEAN : DispatchCall(failed)
    \/ TriggerReturn(FALSE)
    \/ \E l \in Objs : Collect(l)

SpecMultiSubscriber == InitMultiSubscriber /\ [][NextMultiSubscriber]_vars

(***************************************************************************)
(* EventSubscription used directly: subscribe and unsubscribe              *)
(***************************************************************************)
\* EventSubscription.callback_with_subscriber of each subscription
BindOwner(d) == d \in {"event1", "event0"}

\* the subscriptions used by hand: the declared ones and event0, built with an
\* empty tag list for MockPublisher and bound to its owner
AnySubscription == Descriptors \cup {"event0"}

\* the loop `for event_tag in tags` of subscribe / unsubscribe calls _subscribe /
\* _unsubscribe, and with it their checks, at least once
EntersLoop(d) == GetEventTags(d) # <<>>

\* the subscriber argument: an owner object or None
Owners == {"owner", "None"}

\* a _subscribe that never binds the subscriber
PartialNever(d, owner) == <<>>

\* _subscribe: the arguments partial(self.callback, subscriber) fixes, none
\* if callback_with_subscriber is false
Partial(d, owner) == IF BindOwner(d) THEN <<owner>> ELSE <<>>

\* FunctionalEventSubscriber.call(arg, tag, caller): self._callback(arg, tag,
\* caller); the arguments the wrapped callback of a listener gets
CallbackArgs(listener, args) == bound[listener] \o args

\* the caller's record of a subscribe that returned the list `new`; fresh tells
\* whether no alive listener of the publisher wrapped d's callback before (an
\* empty list leaves nothing to record but the call)
AfterSubscribe(d, P, new) ==
    IF new = <<>> THEN [NoHandles EXCEPT !.d = d, !.P = P]
    ELSE [d |-> d, P |-> P, list |-> new, left |-> Range(new),
          before |-> GetListeners(listeners[P], alive),
          fresh |-> \A l \in GetListeners(listeners[P], alive) : callback[l] # d]

\* the caller's record after d.unsubscribe(P, h) returned: nothing new if no
\* remove_listener was called; else a handle of the last subscribe is ticked
\* off, another listener of that publisher leaves `before`, and a handle taken
\* off through another subscription ends the record
AfterUnsubscribe(d, P, h) ==
    IF P # handles.P \/ ~EntersLoop(d) THEN handles
    ELSE IF h \in handles.left
         THEN IF d = handles.d THEN [handles EXCEPT !.left = @ \ {h}] ELSE NoHandles
         ELSE [handles EXCEPT !.before = @ \ {h}]

\* EventSubscription.subscribe(publisher, subscriber): _subscribe once per tag.
\* Both checks of _subscribe fail on the first tag or on none; with no tag
\* _subscribe is not called and the empty list is returned.
ESSubscribe(d, P, owner, gc) ==
    /\ stack = <<>>
    /\ IF EntersLoop(d) /\ PublisherTypeMismatch(d, P)
       THEN /\ error' = "PublisherTypeMismatch"
            /\ UNCHANGED <<listeners, alive, held, callback, handles, bound>>
       ELSE IF EntersLoop(d) /\ BindOwner(d) /\ owner = "None"
       THEN /\ error' = "SubscriberRequired"
            /\ UNCHANGED <<listeners, alive, held, callback, handles, bound>>
       ELSE /\ Cardinality(FreeObjs) >= Len(GetEventTags(d))
            /\ error' = "none"
            /\ LET new == Allocate(FreeObjs, Len(GetEventTags(d)))
               IN  /\ alive' = alive \cup Range(new)
                   /\ held' = held \cup Range(new)
                   /\ callback' = [l \in Objs |-> IF l \in Range(new) THEN d ELSE callback[l]]
                   /\ listeners' = [listeners EXCEPT ![P] =
                         SubscribeRefs(@, new, gc /\ EntersLoop(d), alive)]
                   /\ bound' = [l \in Objs |-> IF l \in Range(new) THEN Partial(d, owner)
                                                ELSE bound[l]]
                   /\ handles' = AfterSubscribe(d, P, new)
    /\ UNCHANGED <<stack, registered, delivered, ntrig, steady, publishers, functional_subscribers,
                   cbreg, subscribers, subreg, sinks, readded, built, returned>>

\* EventSubscription.unsubscribe(publisher, listener) with a listener the caller holds
ESUnsubscribe(d, P, h) ==
    /\ stack = <<>>
    /\ h \in held
    /\ IF EntersLoop(d) /\ PublisherTypeMismatch(d, P)
       THEN /\ error' = "PublisherTypeMismatch"
            /\ UNCHANGED <<listeners, handles>>
       ELSE /\ error' = "none"
            /\ listeners' = [listeners EXCEPT ![P] = Unsubscribe(@, d, h, alive)]
            /\ handles' = AfterUnsubscribe(d, P, h)
    /\ UNCHANGED <<alive, held, callback, stack, registered, delivered, ntrig, steady, publishers,
                   functional_subscribers, cbreg, subscribers, subreg, sinks, readded, bound, built, returned>>

(***************************************************************************)
(* The subscriptions event1, event2 and event0 bound by hand to the        *)
(* publishers P1 and P2; the caller keeps the handles subscribe returns.   *)
(***************************************************************************)
InitSubscription ==
    /\ listeners = [P \in Publishers |-> {}]
    /\ alive = {}
    /\ held = {}
    /\ callback = [l \in Objs |-> NoCallback]
    /\ stack = <<>>
    /\ error = "none"
    /\ registered = [P \in Publishers |-> {}]
    /\ delivered = [P \in Publishers |-> [l \in Objs |-> 0]]
    /\ ntrig = [P \in Publishers |-> 0]
    /\ steady = [P \in Publishers |-> {}]
    /\ publishers = {}
    /\ functional_subscribers = [cb \in Callbacks |-> None]
    /\ cbreg = {}
    /\ subscribers = NoSubscribers
    /\ subreg = NoHistory
    /\ handles = NoHandles
    /\ NoSinks

NextSubscription ==
    \/ \E d \in AnySubscription, P \in Publishers, owner \in Owners, gc \in BOOLEAN :
          ESSubscribe(d, P, owner, gc)
    \/ \E d \in AnySubscription, P \in Publishers, h \in Objs : ESUnsubscribe(d, P, h)
    \/ \E P \in Publishers, m \in Payloads : TriggerEvent(P, m)
    \/ DispatchDead
    \/ \E failed \in BOOLEAN : DispatchCall(failed)
    \/ TriggerReturn(FALSE)
    \/ \E l \in Objs : Drop(l)
    \/ \E l \in Objs : Collect(l)

SpecSubscription == InitSubscription /\ [][NextSubscription]_vars

(***************************************************************************)
(* The same subscriptions bound by hand for one of two owner objects.      *)
(***************************************************************************)
NextOwnerBinding ==
    \/ \E d \in AnySubscription, P \in Publishers, owner \in {"owner", "owner2"},
          gc \in BOOLEAN : ESSubscribe(d, P, owner, gc)
    \/ \E P \in Publishers, m \in Payloads : TriggerEvent(P, m)
    \/ DispatchDead
    \/ DispatchCall(FALSE)
    \/ TriggerReturn(FALSE)
    \/ \E l \in Objs : Drop(l)
    \/ \E l \in Objs : Collect(l)

SpecOwnerBinding == InitSubscription /\ [][NextOwnerBinding]_vars

(***************************************************************************)
(* EventSubscription objects as values: what _get_event_tags,              *)
(* event_tag_str and __hash__ read from publisher_class, event_tag and     *)
(* callback.                                                               *)
(***************************************************************************)
\* the longest tag list a subscription is built with
MaxTags == 2

\* tag values: an int, a member of the Enum MockEvents, and two strings
TagValues == {<<"int", "1">>, <<"Enum", "EVENT_1">>, <<"str", "a">>, <<"str", "b">>}

\* the event_tag argument of EventSubscription: one tag, or a list of tags
EventTags ==
    {<<"tag", t>> : t \in TagValues}
        \cup {<<"list", s>> : s \in UNION {[1..n -> TagValues] : n \in 0..MaxTags}}

\* the publisher class and callback the two test subscriptions may be built with
Builders == {<<"MockPublisher", "callback">>, <<"EventPublisher", "callback2">>}

\* the names of the EventSubscription objects built
SubscriptionNames == {"subscription1", "subscription2"}

\* isinstance(event_tag, list)
IsList(event_tag) == event_tag[1] = "list"

\* isinstance(tag, Enum | int)
IsEnumOrInt(tag) == tag[1] \in {"Enum", "int"}

\* str(tag): an Enum member prints with its class name
StrOfTag(tag) == IF tag[1] = "Enum" THEN "MockEvents." \o tag[2] ELSE tag[2]

\* the strings str(tag) can be, in the order Python compares them (by code point)
StrOrder == <<"1", "MockEvents.EVENT_1", "a", "b">>

\* x <= y for two strings
StrLessEq(x, y) ==
    (CHOOSE i \in DOMAIN StrOrder : StrOrder[i] = x)
        <= (CHOOSE i \in DOMAIN StrOrder : StrOrder[i] = y)

\* a sorted() that returns the list as it is
SortedAsDeclared(strs) == strs

\* sorted(strs)
RECURSIVE Sorted(_)
Sorted(strs) ==
    IF strs = <<>> THEN <<>>
    ELSE LET x == strs[Len(strs)]
             rest == Sorted(SubSeq(strs, 1, Len(strs) - 1))
             k == Cardinality({i \in DOMAIN rest : StrLessEq(rest[i], x)})
         IN  SubSeq(rest, 1, k) \o <<x>> \o SubSeq(rest, k + 1, Len(rest))

\* ", ".join(strs)
RECURSIVE Join(_)
Join(strs) ==
    IF strs = <<>> THEN ""
    ELSE IF Len(strs) = 1 THEN strs[1]
    ELSE strs[1] \o ", " \o Join(Tail(strs))

\* EventSubscription.event_tag_str
event_tag_str(self) ==
    IF IsList(self.event_tag)
    THEN "[" \o Join(Sorted([k \in DOMAIN self.event_tag[2] |-> StrOfTag(self.event_tag[2][k])])) \o "]"
    ELSE StrOfTag(self.event_tag[2])

\* EventSubscription.__hash__: hash((publisher_class, event_tag_str, callback))
hash(self) == <<"hash", self.publisher_class, event_tag_str(self), self.callback>>

\* a tag resolution that gives every tag that is no Enum member and no int
\* a slot of its own
get_event_tags_per_tag(self, event_tag) ==
    LET tags == IF IsList(event_tag) THEN event_tag[2] ELSE <<event_tag[2]>>
    IN  [k \in DOMAIN tags |->
            IF IsEnumOrInt(tags[k]) THEN tags[k] ELSE <<"hash", StrOfTag(tags[k])>>]

\* EventSubscription._get_event_tags(event_tag)
get_event_tags(self, event_tag) ==
    LET tags == IF IsList(event_tag) THEN event_tag[2] ELSE <<event_tag[2]>>
    IN  [k \in DOMAIN tags |-> IF IsEnumOrInt(tags[k]) THEN tags[k] ELSE hash(self)]

\* name = EventSubscription(publisher_class, event_tag, callback)
Construct(name, publisher_class, event_tag, cb) ==
    /\ name \notin DOMAIN built
    /\ built' = [n \in DOMAIN built \cup {name} |->
                    IF n = name
                    THEN [publisher_class |-> publisher_class, event_tag |-> event_tag,
                          callback |-> cb]
                    ELSE built[n]]
    /\ returned' = [n \in DOMAIN built \cup {name} |->
                       IF n = name THEN [call |-> "none", value |-> <<>>] ELSE returned[n]]
    /\ UNCHANGED <<listeners, alive, held, callback, stack, error, registered, delivered, ntrig,
                   steady, publishers, functional_subscribers, cbreg, subscribers, subreg,
                   handles, sinks, readded, bound>>

\* the caller keeps what a call on the subscription returned
Returns(name, call, value) ==
    /\ name \in DOMAIN built
    /\ returned' = [returned EXCEPT ![name] = [call |-> call, value |-> value]]
    /\ UNCHANGED <<listeners, alive, held, callback, stack, error, registered, delivered, ntrig,
                   steady, publishers, functional_subscribers, cbreg, subscribers, subreg,
                   handles, sinks, readded, bound, built>>

\* name._get_event_tags(name.event_tag), as subscribe and unsubscribe call it
GetEventTagsCall(name) ==
    /\ name \in DOMAIN built
    /\ Returns(name, "_get_event_tags", get_event_tags(built[name], built[name].event_tag))

\* name.event_tag_str
EventTagStrCall(name) ==
    /\ name \in DOMAIN built
    /\ Returns(name, "event_tag_str", event_tag_str(built[name]))

\* hash(name)
HashCall(name) ==
    /\ name \in DOMAIN built
    /\ Returns(name, "__hash__", hash(built[name]))

NextDescriptor ==
    \/ \E name \in SubscriptionNames, b \in Builders, event_tag \in EventTags :
           Construct(name, b[1], event_tag, b[2])
    \/ \E name \in SubscriptionNames : GetEventTagsCall(name)
    \/ \E name \in SubscriptionNames : EventTagStrCall(name)
    \/ \E name \in SubscriptionNames : HashCall(name)

SpecDescriptor == InitSubscription /\ [][NextDescriptor]_vars

(***************************************************************************)
(* ReportingEventSubscriber                                                *)
(***************************************************************************)
\* how the isinstance tests of call see a payload: it has __dataclass_fields__,
\* it has _asdict, or neither
Shapes == {"dataclass", "asdict", "other"}

\* the step of call at which an operation of the payload raises, if any: the
\* conversion to a dictionary, the reading of the class name, the formatting of
\* the log message
Faults == {"none", "convert", "name", "format"}

\* what such an operation raises: AttributeError and RuntimeError derive from
\* Exception, SystemExit from BaseException only
Raisable == {"AttributeError", "RuntimeError", "SystemExit"}

\* the payloads given to call
ReportedEvents ==
    {[shape |-> s, fault |-> "none", exc |-> "none"] : s \in Shapes}
       \cup {[shape |-> s, fault |-> f, exc |-> x] :
                s \in Shapes, f \in Faults \ {"none"}, x \in Raisable}

\* type(event_object).__name__ of the payloads of each shape
ClassName(ev) ==
    IF ev.shape = "dataclass" THEN "DataclassEvent"
    ELSE IF ev.shape = "asdict" THEN "NamedTupleEvent" ELSE "SimpleEvent"

\* str(event_object)
Str(ev) == <<"str", ClassName(ev)>>

\* a conversion that ignores the fields of the payload
EventDictValueOnly(ev) == [value |-> Str(ev)]

\* lines 54-59: dataclasses.asdict, _asdict(), or {"value": str(event_object)}
EventDict(ev) ==
    IF ev.shape \in {"dataclass", "asdict"} THEN [message |-> "test message", value |-> 42]
    ELSE [value |-> Str(ev)]

\* lines 62-65: the class name, or "UnknownEvent" if reading it raises
\* AttributeError or TypeError
EventName(ev) ==
    IF ev.fault = "name" /\ ev.exc = "AttributeError" THEN "UnknownEvent" ELSE ClassName(ev)

\* ReportingEventSubscriber.event_source
EventSource == "test_source"

\* lines 68-72
Metadata(ev, tag) ==
    [event_name |-> EventName(ev), event_source |-> EventSource, event_tag |-> tag]

\* dict.update
Update(dict, other) ==
    [k \in DOMAIN dict \cup DOMAIN other |-> IF k \in DOMAIN other THEN other[k] ELSE dict[k]]

\* the exception that leaves the try block for this payload, "none" if none does
Escapes(ev) ==
    IF ev.fault = "none" \/ (ev.fault = "name" /\ ev.exc = "AttributeError")
    THEN "none" ELSE ev.exc

\* except Exception: it catches what derives from Exception
CaughtByExcept(exc) == exc # "SystemExit"

\* logger().info(..., extra={"event_data": event_dict})
InfoRecord(ev, tag) ==
    [level |-> "info", event_data |-> Update(EventDict(ev), Metadata(ev, tag))]

\* logger().error("Error logging event.", exc_info=True, extra={...})
ErrorRecord ==
    [level |-> "error", message |-> "Error logging event.", event_source |-> EventSource]

\* ReportingEventSubscriber.call
ReporterCall(ev, tag) ==
    /\ Len(records) < MaxRecords
    /\ IF Escapes(ev) = "none"
       THEN /\ records' = Append(records, InfoRecord(ev, tag))
            /\ error' = "none"
       ELSE IF CaughtByExcept(Escapes(ev))
       THEN /\ records' = Append(records, ErrorRecord)
            /\ error' = "none"
       ELSE /\ error' = Escapes(ev)
            /\ UNCHANGED records
    /\ UNCHANGED <<listeners, alive, held, callback, stack, registered, delivered, ntrig,
                   steady, publishers, functional_subscribers, cbreg, subscribers, subreg,
                   handles, tracker, readded, bound, built, returned>>

\* the tags call is given
Tags == {1, 2}

(***************************************************************************)
(* One ReportingEventSubscriber called directly, as a listener is.         *)
(***************************************************************************)
InitReporter == InitSubscription

NextReporter == \E ev \in ReportedEvents, tag \in Tags : ReporterCall(ev, tag)

SpecReporter == InitReporter /\ [][NextReporter]_vars

(***************************************************************************)
(* The tracking subscriber: a bounded history and waits for the next event *)
(* of a type.                                                              *)
(***************************************************************************)
\* the payload types and the events the tracking subscriber is given
EventTypes == {"MockEvent", "OtherMockEvent"}

TrackedEvents == {[cls |-> T, id |-> i] : T \in EventTypes, i \in 1..2}

\* a history that is never truncated
RecordUnbounded(log, ev) == Append(log, ev)

\* record(event): append, dropping the oldest event of a full history
Record(log, ev) ==
    IF Len(log) < Capacity THEN Append(log, ev) ELSE Append(Tail(log), ev)

\* a wait that any event ends
MatchesAny(ev, T) == TRUE

\* the payload's type is the type a waiter waits for
Matches(ev, T) == ev.cls = T

\* the pending waiters an event resolves
Resolved(ev) == {w \in DOMAIN waiting : Matches(ev, waiting[w])}

\* the tracking subscriber is called with an event: it records it and
\* resolves with it every pending waiter of its type
TrackerCall(ev) ==
    /\ Len(arrived) < MaxReceived
    /\ event_log' = Record(event_log, ev)
    /\ arrived' = Append(arrived, ev)
    /\ waiting' = [w \in DOMAIN waiting \ Resolved(ev) |-> waiting[w]]
    /\ results' = [w \in Waiters |-> IF w \in Resolved(ev)
                                     THEN [state |-> "resolved", event |-> ev]
                                     ELSE results[w]]
    /\ error' = "none"
    /\ UNCHANGED <<listeners, alive, held, callback, stack, registered, delivered, ntrig,
                   steady, publishers, functional_subscribers, cbreg, subscribers, subreg,
                   handles, records, readded, bound, built, returned>>

\* clear()
TrackerClear ==
    /\ event_log' = <<>>
    /\ arrived' = <<>>
    /\ error' = "none"
    /\ UNCHANGED <<listeners, alive, held, callback, stack, registered, delivered, ntrig,
                   steady, publishers, functional_subscribers, cbreg, subscribers, subreg,
                   handles, records, waiting, results, readded, bound, built, returned>>

\* await_next(expected_type, timeout) starts: a new waiter joins the pending set
WaitFor(w, T) ==
    /\ w \notin DOMAIN waiting
    /\ results[w] = NotEnded
    /\ waiting' = [x \in DOMAIN waiting \cup {w} |-> IF x = w THEN T ELSE waiting[x]]
    /\ error' = "none"
    /\ UNCHANGED <<listeners, alive, held, callback, stack, registered, delivered, ntrig,
                   steady, publishers, functional_subscribers, cbreg, subscribers, subreg,
                   handles, records, event_log, arrived, results, readded, bound, built, returned>>

\* the timeout of a pending waiter expires: it leaves the pending set and its
\* wait fails with the timeout condition
WaitTimeout(w) ==
    /\ w \in DOMAIN waiting
    /\ waiting' = [x \in DOMAIN waiting \ {w} |-> waiting[x]]
    /\ results' = [results EXCEPT ![w] = [state |-> "Timeout", event |-> NoEvent]]
    /\ error' = "Timeout"
    /\ UNCHANGED <<listeners, alive, held, callback, stack, registered, delivered, ntrig,
                   steady, publishers, functional_subscribers, cbreg, subscribers, subreg,
                   handles, records, event_log, arrived, readded, bound, built, returned>>

InitTracker == InitSubscription

NextTracker ==
    \/ \E ev \in TrackedEvents : TrackerCall(ev)
    \/ TrackerClear
    \/ \E w \in Waiters, T \in EventTypes : WaitFor(w, T)
    \/ \E w \in Waiters : WaitTimeout(w)

SpecTracker == InitTracker /\ [][NextTracker]_vars

(***************************************************************************)
(* Claims about EventPublisher, checked under SpecPublisher.               *)
(***************************************************************************)
\* a trigger_event call whose loop is over and which is about to return
Finished(f) == f.todo = <<>>

\* C1: a listener that was added to P, has not been removed since and is still
\* strongly held by the caller is in P.get_listeners(), after any sequence of
\* add_listener, remove_listener of others, trigger_event and get_listeners.
C1_HeldListenerListed ==
    \A P \in Publishers : \A l \in registered[P] \cap held :
        l \in GetListeners(listeners[P], alive)

\* C1 witness: a held registered listener after a trigger, with another listener
\* removed and a third one collected
C1_Witness ==
    /\ stack = <<>>
    /\ \E l \in registered["P1"] \cap held : l \in GetListeners(listeners["P1"], alive)
    /\ \E o \in held : o \notin registered["P1"]
    /\ \E o \in Objs : o \notin alive

\* C2: trigger_event with a payload of the wrong type raises the invalid-event-type
\* error before any listener runs: such a call starts no dispatch and changes
\* nothing, however many listeners are registered, so no dispatch ever carries
\* a payload of the wrong type and no listener ever receives one.
C2_NoDispatchOfInvalid ==
    /\ \A i \in DOMAIN stack :
          /\ IsInstance(stack[i].message, Publication(stack[i].pub).event_class)
          /\ \A l \in Objs : \A k \in DOMAIN stack[i].calls[l] :
                IsInstance(stack[i].calls[l][k][1], Publication(stack[i].pub).event_class)
    /\ error = "InvalidEventType" => stack = <<>>

\* C2 witness: the error was raised with two listeners registered and alive
C2_Witness ==
    /\ error = "InvalidEventType"
    /\ Cardinality(registered["P1"] \cap held) >= 2

C4_SnapshotOnRemoval ==
    \A i \in DOMAIN stack :
        Finished(stack[i]) =>
            \A B \in stack[i].removed \cap stack[i].must :
                Len(stack[i].calls[B]) = 1

\* C4 witness: B was visited after A had removed it, and received the event
C4_Witness ==
    /\ stack # <<>>
    /\ \E B \in Top.removed \cap Top.must :
          /\ Top.cur = B
          /\ B \notin registered[Top.pub]
          /\ Len(Top.calls[B]) = 1

\* C5: a successful trigger_event(payload) invokes every listener registered and
\* alive at its start exactly once, with (payload, the publication's tag, the
\* publisher); after k triggers each such listener has received exactly k calls.
C5_ExactlyOnceWithArgs ==
    /\ \A i \in DOMAIN stack :
          Finished(stack[i]) =>
              \A l \in stack[i].must :
                  stack[i].calls[l] =
                      << <<stack[i].message, Publication(stack[i].pub).event_tag,
                           stack[i].pub>> >>
    /\ stack = <<>> =>
          \A P \in Publishers : \A l \in steady[P] \cap held :
              delivered[P][l] = ntrig[P]

\* C5 witness: a listener registered since before the first trigger has received
\* both of two triggers
C5_Witness ==
    /\ stack = <<>>
    /\ ntrig["P1"] >= 2
    /\ \E l \in steady["P1"] \cap held : delivered["P1"][l] = ntrig["P1"]

\* the caller's calls that sweep: get_listeners, remove_listener (also from within
\* a listener) and a trigger_event that passes its type check
SweepingCall ==
    \/ GetListenersCall("P1")
    \/ \E l \in Objs : RemoveListener("P1", l)
    \/ \E other \in Objs : DispatchCallRemoving(other)
    \/ \E m \in Payloads : IsInstance(m, Publication("P1").event_class) /\ TriggerEvent("P1", m)

\* the caller's calls named by the claim, a trigger_event that raises included
NamedCall ==
    \/ SweepingCall
    \/ \E m \in Payloads : TriggerEvent("P1", m)

\* no listener that is not alive is invoked
OnlyAliveInvoked ==
    \A i \in DOMAIN stack : i \in DOMAIN stack' =>
        \A l \in Objs : Len(stack'[i].calls[l]) > Len(stack[i].calls[l]) => l \in alive

KeptFor(publication, cb) ==
    {l \in FunctionalRefs \cap alive :
        callback[l] = cb /\ l \in listeners[PublisherOf(publication)]}

\* C7: a callback added for publication p with add_listener_with_callback and
\* not removed for p since is kept alive by the container, and every finished
\* trigger_event(p, payload) has invoked it exactly once, although the caller
\* holds no reference to the wrapping listener.
C7_AsStated ==
    \A pair \in cbreg :
        /\ KeptFor(pair[1], pair[2]) # {}
        /\ \A i \in 1..Len(stack) :
              Finished(stack[i]) /\ stack[i].pub = PublisherOf(pair[1])
                 => stack[i].heard[pair[2]] = 1

\* C7, the case the container does handle: one publication per callback
C7_Witness ==
    /\ cbreg = {<<Event1Pub, "cb1">>}
    /\ stack # <<>> /\ Finished(Top) /\ Top.pub = "P1"
    /\ Top.heard["cb1"] = 1
    /\ \A l \in KeptFor(Event1Pub, "cb1") : l \notin held


\* some MultiPublisher operation called with this publication
MPCallWith(pub) ==
    \/ \E l \in Objs, gc \in BOOLEAN : MPAddListener(pub, l, gc)
    \/ \E l \in Objs : MPRemoveListener(pub, l)
    \/ \E cb \in Callbacks, gc \in BOOLEAN, freed \in BOOLEAN :
          MPAddListenerWithCallback(pub, cb, gc, freed)
    \/ \E cb \in Callbacks : MPRemoveListenerWithCallback(pub, cb)
    \/ \E m \in Payloads : MPTriggerEvent(pub, m)

MPAddFor(pub) ==
    \/ \E l \in Objs, gc \in BOOLEAN : MPAddListener(pub, l, gc)
    \/ \E cb \in Callbacks, gc \in BOOLEAN, freed \in BOOLEAN :
          MPAddListenerWithCallback(pub, cb, gc, freed)

\* C14: a publication gets its EventPublisher only by an add for it, and a
\* remove_listener(p, L) that leaves p's publisher without an alive listener
\* drops p from the publication-to-publisher map and touches no other publisher.
C14_LazyAndDropped ==
    /\ [][\A pub \in AnyPublication :
            pub \in publishers' \ publishers => MPAddFor(pub)]_vars
    /\ [][\A pub \in GetEventDefinitions :
            (pub \in publishers /\ \E l \in Objs : MPRemoveListener(pub, l)) =>
               /\ GetListeners(listeners'[PublisherOf(pub)], alive') = {}
                     => pub \notin publishers'
               /\ \A other \in GetEventDefinitions \ {pub} :
                     /\ other \in publishers' <=> other \in publishers
                     /\ listeners'[PublisherOf(other)] = listeners[PublisherOf(other)]]_vars

\* C14 witness: a removal took the last alive listener off event1's publisher
\* and the publisher is gone, while event2's is still there with its listener
C14_Witness ==
    /\ error = "remove_listener: publisher dropped"
    /\ Event1Pub \notin publishers
    /\ listeners["P1"] = {}
    /\ Event2Pub \in publishers
    /\ 1 \in listeners["P2"] \cap held

\* C15: trigger_event(p, payload) for a declared publication without an
\* EventPublisher raises nothing, starts no dispatch and creates no publisher.
C15_TriggerWithoutPublisher ==
    [][\A pub \in GetEventDefinitions :
          (pub \notin publishers /\ \E m \in Payloads : MPTriggerEvent(pub, m)) =>
             /\ error' = "trigger_event: no publisher"
             /\ UNCHANGED <<publishers, functional_subscribers, listeners, stack>>]_vars

\* C15 witness: the trigger returned early for event1 while event2 had a publisher
C15_Witness ==
    /\ error = "trigger_event: no publisher"
    /\ Event1Pub \notin publishers
    /\ Event2Pub \in publishers
    /\ stack = <<>>

\* C16: a dispatch started by trigger_event(p, payload) calls a listener the
\* caller holds once if it was added for p and not at all otherwise, whatever was
\* added for the other publication.
C16_PublicationIndependence ==
    \A i \in 1..Len(stack) :
        Finished(stack[i]) =>
            \A l \in held :
                Len(stack[i].calls[l]) =
                    IF l \in registered[PublisherOf(stack[i].asked)] THEN 1 ELSE 0

\* C16 witness: an event2 dispatch that called a retained callback but not the
\* listener added for event1 only
C16_Witness ==
    /\ stack # <<>> /\ Finished(Top) /\ Top.asked = Event2Pub
    /\ 1 \in (registered["P1"] \cap held) \ registered["P2"]
    /\ Top.calls[1] = <<>>
    /\ Top.heard["cb1"] = 1

\* C17: remove_listener_with_callback(p, cb) after add_listener_with_callback(p,
\* cb) takes the retained listener off p's publisher and cb out of the retention
\* map; while cb is not in the map a dispatch whose snapshot holds no listener
\* awaiting collection invokes cb zero times.
C17_RemovedCallbackSilent ==
    /\ [][\A pub \in GetEventDefinitions, cb \in Callbacks :
            (/\ pub \in publishers
             /\ functional_subscribers[cb] # None
             /\ MPRemoveListenerWithCallback(pub, cb)) =>
                /\ functional_subscribers'[cb] = None
                /\ functional_subscribers[cb] \notin listeners'[PublisherOf(pub)]]_vars
    /\ [](\A i \in 1..Len(stack) : \A cb \in Callbacks :
            (/\ Finished(stack[i])
             /\ stack[i].loose = {}
             /\ functional_subscribers[cb] = None) => stack[i].heard[cb] = 0)

\* C17 witness: cb1 was added for event1 and removed again; its listener is off
\* the publisher though not collected yet, and an event1 dispatch reached the
\* other listener only
C17_Witness ==
    /\ functional_subscribers["cb1"] = None
    /\ \E l \in alive : callback[l] = "cb1" /\ l \notin listeners["P1"]
    /\ stack # <<>> /\ Finished(Top) /\ Top.asked = Event1Pub
    /\ Top.heard["cb1"] = 0
    /\ Len(Top.calls[1]) = 1

(***************************************************************************)
(* Claims about MultiSubscriber                                            *)
(***************************************************************************)
Pairs == Publishers \X Descriptors

\* the registry has an entry for the pair
HasEntry(P, d) == P \in DOMAIN subscribers /\ d \in DOMAIN subscribers[P]

\* the listeners on P that call the owner's handler for subscription d
HandlerListeners(P, d) == {l \in listeners[P] : callback[l] = d}

\* every dispatch on P that has visited its whole snapshot reached the handler
\* of d exactly n times
ReachedTimes(P, d, n) ==
    \A i \in 1..Len(stack) :
        Finished(stack[i]) /\ stack[i].pub = P => stack[i].heard[d] = n

\* C8: add_subscription is idempotent per (publisher, descriptor): after a second
\* add of the same declared descriptor on the same publisher there is one registry
\* entry with one listener per tag, the publisher carries no other listener of
\* the subscription, and each event reaches the handler as often as after one add.
C8_Idempotent ==
    \A pair \in Pairs :
        subreg[pair] = "again" =>
            /\ HasEntry(pair[1], pair[2])
            /\ Len(subscribers[pair[1]][pair[2]]) = Len(GetEventTags(pair[2]))
            /\ HandlerListeners(pair[1], pair[2]) = Range(subscribers[pair[1]][pair[2]])
            /\ Cardinality(HandlerListeners(pair[1], pair[2])) = Len(GetEventTags(pair[2]))
            /\ ReachedTimes(pair[1], pair[2], Len(GetEventTags(pair[2])))

\* C8 witness: the two-tag subscription added twice on P2, and an event on P2
\* delivered to the handler by its two listeners
C8_Witness ==
    /\ subreg[<<"P2", "event2">>] = "again"
    /\ stack # <<>> /\ Finished(Top) /\ Top.pub = "P2"
    /\ Top.heard["event2"] = Len(GetEventTags("event2"))
    /\ Cardinality(listeners["P2"]) = Len(GetEventTags("event2"))

\* C9: from add_subscription(d, P) until remove_subscription(d, P) every listener
\* stored under (P, d) is alive and in P.get_listeners(), and every dispatch on P
\* reaches the owner's handler, whatever is added or removed for other pairs.
C9_Retention ==
    \A pair \in Pairs :
        subreg[pair] \in {"once", "again", "afresh"} =>
            /\ HasEntry(pair[1], pair[2])
            /\ Range(subscribers[pair[1]][pair[2]]) # {}
            /\ Range(subscribers[pair[1]][pair[2]]) \subseteq alive
            /\ Range(subscribers[pair[1]][pair[2]])
                  \subseteq GetListeners(listeners[pair[1]], alive)
            /\ \A i \in 1..Len(stack) :
                  Finished(stack[i]) /\ stack[i].pub = pair[1]
                     => stack[i].heard[pair[2]] >= 1

\* C9 witness: event1 stays subscribed on P1 and is reached by an event while
\* the pair (P2, event1) was added and removed and its listener collected
C9_Witness ==
    /\ subreg[<<"P1", "event1">>] = "once"
    /\ subreg[<<"P2", "event1">>] = "removed"
    /\ Cardinality(alive) = 1
    /\ stack # <<>> /\ Finished(Top) /\ Top.pub = "P1"
    /\ Top.heard["event1"] = 1

\* the errors a MultiSubscriber call can raise
MSErrors == {"SubscriptionNotDefined", "PublisherTypeMismatch"}

\* C11: remove_subscription(d, P) for a declared d whose pair (P, d) is not
\* registered raises nothing and leaves the registry, its set of publisher keys
\* included, and P's listener set unchanged.
C11_AsStated ==
    [][\A P \in Publishers, d \in Descriptors :
          (~HasEntry(P, d) /\ MSRemoveSubscription(d, P)) =>
             /\ error' \notin MSErrors
             /\ UNCHANGED <<subscribers, listeners>>]_vars

\* a MultiSubscriber call with the subscription no class attribute holds
MSCallWithUndeclared ==
    \E P \in Publishers :
        \/ \E gc \in BOOLEAN : MSAddSubscription("undeclared", P, gc)
        \/ MSRemoveSubscription("undeclared", P)

\* C12: add_subscription and remove_subscription called with a descriptor the
\* owner class does not declare raise the subscription-not-defined error and
\* change nothing: no listener set, no listener object and no registry entry.
C12_UndeclaredRejected ==
    [][MSCallWithUndeclared =>
          /\ error' = "SubscriptionNotDefined"
          /\ UNCHANGED <<listeners, alive, subscribers>>]_vars

\* C12 witness: the error was raised while a subscription was registered and
\* its listeners were on the publisher
C12_Witness ==
    /\ error = "SubscriptionNotDefined"
    /\ HasEntry("P2", "event2")
    /\ Cardinality(listeners["P2"]) = Len(GetEventTags("event2"))
    /\ "P1" \notin DOMAIN subscribers

\* a remove_subscription that found the pair registered
Removes(pair) == subreg[pair] # "removed" /\ subreg'[pair] = "removed"

\* C10: remove_subscription(d, P) on a registered pair takes every listener
\* stored for (P, d) off P and drops the entry; while the pair stays removed no
\* dispatch on P reaches the handler through d; a later add_subscription(d, P)
\* registers it again with a full set of listeners.
C10_RemoveThenAfresh ==
    /\ [][\A pair \in Pairs :
            Removes(pair) =>
               /\ HasEntry(pair[1], pair[2])
               /\ Range(subscribers[pair[1]][pair[2]]) \cap listeners'[pair[1]] = {}
               /\ pair[2] \notin DOMAIN subscribers'[pair[1]]]_vars
    /\ [](\A pair \in Pairs :
            /\ subreg[pair] = "removed" =>
                  /\ ~HasEntry(pair[1], pair[2])
                  /\ HandlerListeners(pair[1], pair[2]) = {}
                  /\ ReachedTimes(pair[1], pair[2], 0)
            /\ subreg[pair] = "afresh" =>
                  /\ HasEntry(pair[1], pair[2])
                  /\ HandlerListeners(pair[1], pair[2]) = Range(subscribers[pair[1]][pair[2]])
                  /\ Cardinality(HandlerListeners(pair[1], pair[2]))
                        = Len(GetEventTags(pair[2])))

\* C10 witness: event1 removed from P1 and an event on P1 that reached no
\* handler, while event1 was removed from P2 and added again
C10_Witness ==
    /\ subreg[<<"P1", "event1">>] = "removed"
    /\ subreg[<<"P2", "event1">>] = "afresh"
    /\ HasEntry("P2", "event1")
    /\ stack # <<>> /\ Finished(Top) /\ Top.pub = "P1"
    /\ \A d \in Descriptors : Top.heard[d] = 0


(***************************************************************************)
(* Claims about EventSubscription                                          *)
(***************************************************************************)
\* the last subscribe returned handles and none of them was unsubscribed since
Bound == handles.list # <<>> /\ handles.left = Range(handles.list)

\* C18: subscribe(publisher, owner) returns one listener handle per tag of the
\* descriptor, all different, and every returned handle the caller still holds
\* and has not unsubscribed is in the publisher's get_listeners().
C18_OneHandlePerTag ==
    handles.list # <<>> =>
        /\ Len(handles.list) = Len(GetEventTags(handles.d))
        /\ Cardinality(Range(handles.list)) = Len(handles.list)
        /\ handles.left \cap held \subseteq GetListeners(listeners[handles.P], alive)

\* C18 witness: the two-tag subscription bound to P2 returned two handles, both
\* on the publisher
C18_Witness ==
    /\ Bound /\ handles.d = "event2" /\ handles.P = "P2"
    /\ Len(handles.list) = Len(GetEventTags("event2"))
    /\ Range(handles.list) \subseteq held \cap listeners["P2"]

\* the held listeners on publisher P that wrap the callback of subscription d
HeldFor(P, d) == {l \in listeners[P] \cap held : callback[l] = d}

\* C19: with a subscription of N tags bound once to a publisher and its handles
\* held, a dispatch on that publisher calls each of the N listeners once, with
\* the publication's own tag, so the callback runs N times; a dispatch returns
\* only after it visited its whole snapshot and none starts before it returned,
\* so the calls for one event all come before those for the next.
C19_EveryListenerEveryEvent ==
    /\ [](Len(stack) <= 1)
    /\ [][Len(stack') < Len(stack) => Finished(Top)]_vars
    /\ [](\A i \in 1..Len(stack) :
            (/\ Finished(stack[i])
             /\ Bound
             /\ stack[i].pub = handles.P
             /\ stack[i].loose = {}
             /\ Range(handles.list) \subseteq held
             /\ HeldFor(handles.P, handles.d) \subseteq Range(handles.list)) =>
                /\ stack[i].heard[handles.d] = Len(GetEventTags(handles.d))
                /\ \A h \in Range(handles.list) :
                      stack[i].calls[h] = <<CallArgs(handles.P, stack[i].message)>>)

\* C19 witness: the two-tag subscription, bound without owner to P2, had its
\* callback run twice by one event
C19_Witness ==
    /\ Bound /\ handles.d = "event2" /\ ~BindOwner("event2")
    /\ Range(handles.list) \subseteq held
    /\ stack # <<>> /\ Finished(Top) /\ Top.pub = "P2"
    /\ Top.heard["event2"] = Len(GetEventTags("event2"))
    /\ Len(GetEventTags("event2")) > 1

\* the last subscribe returned handles and d.unsubscribe was called for each
RoundTrip == handles.list # <<>> /\ handles.left = {}

\* C20: after subscribe and an unsubscribe for every returned handle the
\* publisher's alive listeners are those it had before the subscribe (less the
\* ones collected meanwhile), and if none of those wrapped d's callback a dispatch
\* on the publisher does not call it.
C20_RoundTrip ==
    RoundTrip =>
        /\ GetListeners(listeners[handles.P], alive) = handles.before \cap alive
        /\ handles.fresh =>
              \A i \in 1..Len(stack) :
                  Finished(stack[i]) /\ stack[i].pub = handles.P
                     => stack[i].heard[handles.d] = 0

\* C20 witness: the handle of event1 was unsubscribed from P2, which keeps the
\* listener of event2 it had before, and an event reached that one only
C20_Witness ==
    /\ RoundTrip /\ handles.d = "event1" /\ handles.P = "P2"
    /\ Cardinality(handles.before \cap held) = 1
    /\ stack # <<>> /\ Finished(Top) /\ Top.pub = "P2"
    /\ Top.heard["event1"] = 0 /\ Top.heard["event2"] = 1

\* a subscribe or unsubscribe of d on P
ESCall(d, P) ==
    \/ \E owner \in Owners, gc \in BOOLEAN : ESSubscribe(d, P, owner, gc)
    \/ \E h \in Objs : ESUnsubscribe(d, P, h)

\* C21: for every descriptor d, with a scalar tag or a tag list of any length,
\* and every publisher whose type is not d's publisher_type or a subtype,
\* d.subscribe and d.unsubscribe fail with the publisher-type-mismatch error and
\* leave the publisher's listener set unchanged.
C21_AsStated ==
    [][\A d \in AnySubscription, P \in Publishers :
          (PublisherTypeMismatch(d, P) /\ ESCall(d, P)) =>
             /\ error' = "PublisherTypeMismatch"
             /\ listeners'[P] = listeners[P]]_vars

\* C22: d.subscribe(P, None) on an owner-bound descriptor (P of d's publisher
\* type) fails with the missing-owner error and registers no listener on P; on
\* a descriptor that is not owner-bound it succeeds and returns one handle per tag.
C22_AsStated ==
    [][\A d \in AnySubscription, P \in Publishers :
          (/\ ~PublisherTypeMismatch(d, P)
           /\ \E gc \in BOOLEAN : ESSubscribe(d, P, "None", gc)) =>
              IF BindOwner(d)
              THEN /\ error' = "SubscriberRequired"
                   /\ UNCHANGED <<listeners, alive>>
              ELSE /\ error' = "none"
                   /\ handles'.d = d /\ handles'.P = P
                   /\ Len(handles'.list) = Len(GetEventTags(d))
                   /\ Range(handles'.list) \subseteq listeners'[P]]_vars

(***************************************************************************)
(* Claims about subscription and publication lookup                        *)
(***************************************************************************)
\* C23: two distinct EventSubscription objects built with the same publisher
\* type, tags and callback have equal hashes and compare equal, so with one
\* declared the MultiSubscriber accepts the other: add_subscription with the
\* other one registers the declared entry, and remove_subscription with it
\* removes the entry the declared one registered.
C23_AsStated ==
    /\ [](/\ Hash("event1twin") = Hash("event1")
          /\ Equals("event1twin", "event1"))
    /\ [][\A P \in Publishers :
            (\E gc \in BOOLEAN : MSAddSubscription("event1twin", P, gc)) =>
               /\ error' # "SubscriptionNotDefined"
               /\ P \in DOMAIN subscribers' /\ "event1" \in DOMAIN subscribers'[P]]_vars
    /\ [][\A P \in Publishers :
            MSRemoveSubscription("event1twin", P) =>
               /\ error' # "SubscriptionNotDefined"
               /\ P \in DOMAIN subscribers' => "event1" \notin DOMAIN subscribers'[P]]_vars

\* the names declared by a class or one of its ancestors
InheritedNames(cls) ==
    UNION {DOMAIN ClassDict(Mro(cls)[i]) : i \in DOMAIN Mro(cls)}

\* C24: get_event_definitions of a subclass contains every definition declared
\* on an ancestor plus its own, its own winning for a name declared again; so
\* an instance of the subclass accepts in add_listener and trigger_event a
\* publication that only its parent class declares.
C24_AsStated ==
    /\ [](/\ DOMAIN DefinitionsOf(OwnerClass) = InheritedNames(OwnerClass)
          /\ \A name \in DOMAIN ClassDict(OwnerClass) :
                DefinitionsOf(OwnerClass)[name] = ClassDict(OwnerClass)[name])
    /\ [][(\/ \E l \in Objs, gc \in BOOLEAN : MPAddListener(ParentPub, l, gc)
           \/ \E m \in Payloads : MPTriggerEvent(ParentPub, m))
             => error' # "InvalidPublication"]_vars

(***************************************************************************)
(* Further claims about EventPublisher                                     *)
(***************************************************************************)
\* remove_listener(l) on P1, called by the caller or by a listener
RemoveCall(l) == RemoveListener("P1", l) \/ DispatchCallRemoving(l)

\* C25: remove_listener(L) raises nothing and takes exactly L out of the alive
\* registered listeners: they are unchanged if L was not among them; a listener
\* that is not registered is not in get_listeners(), and a trigger_event that
\* starts dispatches only to listeners registered at that moment, so L is not
\* invoked again unless it is added again.
C25_RemoveExactly ==
    /\ [][\A l \in Objs :
            RemoveCall(l) =>
               /\ error' = "none"
               /\ GetListeners(listeners'["P1"], alive')
                     = GetListeners(listeners["P1"], alive) \ {l}]_vars
    /\ [](\A l \in Objs \ registered["P1"] : l \notin GetListeners(listeners["P1"], alive))
    /\ [][Len(stack') > Len(stack) => Range(Top'.todo) \subseteq registered["P1"]]_vars

\* C25 witness: a registered listener was removed during a dispatch; it is not
\* in get_listeners() any more and another listener still is
C25_Witness ==
    /\ stack # <<>>
    /\ \E L \in Top.removed \cap held :
          /\ L \notin GetListeners(listeners["P1"], alive)
          /\ \E o \in GetListeners(listeners["P1"], alive) : o # L /\ o # Top.cur

\* C26: dead references are swept before and after every trigger_event and on
\* every remove_listener: right after trigger_event or remove_listener returns,
\* the publisher's set holds no reference to a collected listener, those
\* collected while the dispatch was running included.
C26_AsStated ==
    [][(\/ TriggerReturn(FALSE)
        \/ \E l \in Objs : RemoveListener("P1", l))
          => listeners'["P1"] \subseteq alive']_vars

(***************************************************************************)
(* Claims about ReportingEventSubscriber                                   *)
(***************************************************************************)
\* one record was logged, at this level
LoggedOne(level) ==
    /\ Len(records') = Len(records) + 1
    /\ SubSeq(records', 1, Len(records)) = records
    /\ records'[Len(records')].level = level

\* the record logged for a payload that was converted: the three metadata
\* fields with their values, and the payload's fields or its string form
WellFormed(data, ev, tag, name) ==
    /\ {"event_name", "event_source", "event_tag"} \subseteq DOMAIN data
    /\ data.event_name = name /\ data.event_source = EventSource /\ data.event_tag = tag
    /\ IF ev.shape = "other"
       THEN DOMAIN data = {"event_name", "event_source", "event_tag", "value"}
            /\ data.value = Str(ev)
       ELSE {"message", "value"} \subseteq DOMAIN data
            /\ data.message = "test message" /\ data.value = 42

\* C27: call never raises, for any payload: on success it emits exactly one
\* info record whose mapping has event_name, event_source, event_tag and the
\* payload's fields or its string form as value; on any internal failure it
\* emits no info record and exactly one error record.
C27_AsStated ==
    [][\A ev \in ReportedEvents, tag \in Tags :
          ReporterCall(ev, tag) =>
             /\ error' = "none"
             /\ IF ev.fault = "none"
                THEN LoggedOne("info")
                     /\ WellFormed(records'[Len(records')].event_data, ev, tag, ClassName(ev))
                ELSE LoggedOne("error")]_vars

\* C27 amended: the same for the failures that derive from Exception, except
\* that an AttributeError raised by the reading of the class name is not a
\* failure of the call: the record is emitted with event_name "UnknownEvent".
C27_NeverRaisesException ==
    [][\A ev \in ReportedEvents, tag \in Tags :
          (ev.exc # "SystemExit" /\ ReporterCall(ev, tag)) =>
             /\ error' = "none"
             /\ IF ev.fault = "none"
                THEN LoggedOne("info")
                     /\ WellFormed(records'[Len(records')].event_data, ev, tag, ClassName(ev))
                ELSE IF ev.fault = "name" /\ ev.exc = "AttributeError"
                THEN LoggedOne("info")
                     /\ WellFormed(records'[Len(records')].event_data, ev, tag, "UnknownEvent")
                ELSE LoggedOne("error")]_vars

\* C27 witness: an info record for a dataclass payload, then an error record
C27_Witness ==
    /\ Len(records) = 2
    /\ records[1].level = "info" /\ records[1].event_data.event_name = "DataclassEvent"
    /\ records[2].level = "error"
    /\ error = "none"

(***************************************************************************)
(* Claims about the tracking subscriber                                    *)
(***************************************************************************)
\* the last n elements of a sequence
LastN(seq, n) == SubSeq(seq, Len(seq) - n + 1, Len(seq))

Min(a, b) == IF a < b THEN a ELSE b

\* C28: after n received events with capacity c the history holds exactly the
\* last min(n, c) of them in arrival order, newest last, and clear() empties it.
C28_BoundedHistory ==
    /\ [](event_log = LastN(arrived, Min(Len(arrived), Capacity)))
    /\ [][TrackerClear => event_log' = <<>>]_vars

\* C28 witness: more events than the capacity were received, the oldest is gone
C28_Witness ==
    /\ Len(arrived) > Capacity
    /\ Len(event_log) = Capacity
    /\ arrived[1] # arrived[2]
    /\ event_log[Len(event_log)] = arrived[Len(arrived)]

\* C29: a pending wait for type T is resolved by the first event of type T
\* received after it started, every waiter pending for T with that same event,
\* and not by an event of another type; a waiter that times out fails with the
\* timeout condition and leaves the pending set, and the other pending waiters
\* are unaffected; a wait that has ended keeps its outcome.
C29_Waiters ==
    /\ [][\A ev \in TrackedEvents :
            TrackerCall(ev) =>
               \A w \in DOMAIN waiting :
                  IF waiting[w] = ev.cls
                  THEN /\ results'[w] = [state |-> "resolved", event |-> ev]
                       /\ w \notin DOMAIN waiting'
                  ELSE /\ w \in DOMAIN waiting' /\ waiting'[w] = waiting[w]
                       /\ results'[w] = NotEnded]_vars
    /\ [][\A w \in Waiters :
            WaitTimeout(w) =>
               /\ results'[w].state = "Timeout"
               /\ w \notin DOMAIN waiting'
               /\ \A o \in Waiters \ {w} :
                     /\ results'[o] = results[o]
                     /\ o \in DOMAIN waiting <=> o \in DOMAIN waiting'
                     /\ o \in DOMAIN waiting => waiting'[o] = waiting[o]]_vars
    /\ [][\A w \in Waiters : results[w] # NotEnded => results'[w] = results[w]]_vars
    /\ [](\A w \in DOMAIN waiting : results[w] = NotEnded)

\* C29 witness: of two waiters for MockEvent one timed out; an OtherMockEvent
\* resolved nothing and the MockEvent that came next resolved the other waiter;
\* no waiter is pending
C29_Witness ==
    /\ Len(arrived) = 2
    /\ arrived[1].cls = "OtherMockEvent" /\ arrived[2].cls = "MockEvent"
    /\ results[1].state = "Timeout"
    /\ results[2] = [state |-> "resolved", event |-> arrived[2]]
    /\ DOMAIN waiting = {}

\* C30: a listener outside the snapshot that another listener adds to P1 while a
\* trigger_event on P1 is in flight is not invoked by that dispatch; every
\* trigger_event that enters its loop takes every registered listener that is
\* alive into its snapshot, and a finished dispatch has invoked each listener
\* that was registered and held at its start exactly once: the added listener
\* receives the next event if it is still alive and registered.
C30_SnapshotOnAddition ==
    /\ [](\A i \in DOMAIN stack :
            \A l \in stack[i].added : stack[i].calls[l] = <<>>)
    /\ [][Len(stack') > Len(stack) =>
              (registered["P1"] \cap alive) \subseteq Range(Top'.todo)]_vars
    /\ [](\A i \in DOMAIN stack :
            Finished(stack[i]) =>
                \A l \in stack[i].must :
                    stack[i].calls[l] = <<CallArgs(stack[i].pub, stack[i].message)>>)

\* C30 witness: the first listener a trigger_event visits is one the caller never
\* registered: a listener added it during an earlier dispatch, which did not
\* invoke it, and it has now received the event
C30_Witness ==
    /\ stack # <<>>
    /\ \E l \in (Top.must \cap registered["P1"]) \ steady["P1"] :
          /\ Top.cur = l
          /\ Top.calls[l] = <<CallArgs("P1", Top.message)>>
          /\ \A other \in Objs \ {l} : Top.calls[other] = <<>>
          /\ Top.added = {}

\* C31: when a listener invoked for e1 triggers e2 on the same publisher, the
\* nested dispatch delivers e2 exactly once to every listener registered and
\* held at that moment while the dispatch below waits unchanged; the outer
\* dispatch then still delivers e1 exactly once to every listener of its own
\* snapshot; and every dispatch in flight returns.
C31_Reentrant ==
    /\ [](\A i \in DOMAIN stack :
            /\ \A l \in Objs : Len(stack[i].calls[l]) <= 1
            /\ Finished(stack[i]) =>
                  \A l \in stack[i].must :
                      stack[i].calls[l] = <<CallArgs(stack[i].pub, stack[i].message)>>)
    /\ [][\A i \in 1..(Len(stack) - 1) : i <= Len(stack') /\ stack'[i] = stack[i]]_vars
    /\ (stack # <<>>) ~> (stack = <<>>)

\* C31 witness: a listener of the outer dispatch started a nested one, which has
\* returned, and the outer dispatch, resumed, has delivered e1 once to each of
\* its three listeners
C31_Witness ==
    /\ Len(stack) = 1
    /\ Finished(Top)
    /\ Top.nested >= 1
    /\ Cardinality(Top.must) >= 3
    /\ \A l \in Top.must : Top.calls[l] = <<CallArgs("P1", Top.message)>>

\* C32: add_listener for a listener the publisher holds already changes nothing
\* that get_listeners() returns; a listener added several times is invoked
\* exactly once by each trigger_event, and one remove_listener takes it out of
\* get_listeners() and of the internal set.
C32_StoredOnce ==
    /\ [][\A l \in Objs, gc \in BOOLEAN : AddListenerAgain("P1", l, gc) =>
              /\ GetListeners(listeners'["P1"], alive') = GetListeners(listeners["P1"], alive)
              /\ l \in GetListeners(listeners'["P1"], alive')]_vars
    /\ [](\A i \in DOMAIN stack : \A l \in readded :
            /\ Len(stack[i].calls[l]) <= 1
            /\ Finished(stack[i]) /\ l \in stack[i].must =>
                  stack[i].calls[l] = <<CallArgs(stack[i].pub, stack[i].message)>>)
    /\ [][\A l \in readded : RemoveListener("P1", l) =>
              /\ l \notin GetListeners(listeners'["P1"], alive')
              /\ l \notin listeners'["P1"]]_vars

\* C32 witness: a dispatch has invoked, once, a listener that was added again
\* while registered, next to a listener that was added once
C32_Witness ==
    /\ stack # <<>>
    /\ Finished(Top)
    /\ \E l \in readded \cap Top.must : Top.calls[l] = <<CallArgs("P1", Top.message)>>
    /\ Top.must \ readded # {}

\* add_listener(l) on P1, called by the caller or by a listener
AddCall(l) ==
    \/ \E gc \in BOOLEAN : AddListener("P1", l, gc)
    \/ DispatchCallAdding(l)

\* C33: add_listener never fails and leaves the new listener registered; it
\* either removes every dead reference from the set (the draw fell below
\* ADD_LISTENER_GC_PROBABILITY) or removes nothing, and both happen; dead
\* references that stay in the set are not among what get_listeners() returns.
C33_AddListener ==
    /\ [][\A l \in Objs : AddCall(l) =>
              /\ error' = error \/ error' = "none"
              /\ l \in GetListeners(listeners'["P1"], alive')
              /\ \/ listeners'["P1"] = listeners["P1"] \cup {l}
                 \/ listeners'["P1"] = (listeners["P1"] \cup {l}) \cap alive
              /\ GetListeners(listeners'["P1"], alive') = (listeners["P1"] \cap alive) \cup {l}]_vars
    /\ [][\A l \in Objs :
              /\ AddListener("P1", l, TRUE) => listeners'["P1"] \subseteq alive'
              /\ AddListener("P1", l, FALSE) =>
                    listeners["P1"] \subseteq listeners'["P1"]]_vars

\* C33 witness: a listener died during a dispatch, the loop skipped it, and the
\* listener invoked next added a new listener: the dead reference is still in
\* the set, and get_listeners() would return the live listeners only
C33_Witness ==
    /\ stack # <<>>
    /\ Top.cur # None
    /\ Top.added # {}
    /\ \A l \in Objs \ {Top.cur} : Top.calls[l] = <<>>
    /\ \E d \in (Top.loose \cap listeners["P1"]) \ alive :
          \A k \in DOMAIN Top.todo : Top.todo[k] # d
    /\ Top.added \subseteq GetListeners(listeners["P1"], alive)

\* C34: the listeners subscribe(P, owner) produces for an owner-bound
\* descriptor have the owner given to that call fixed as first argument of the
\* callback, those of a descriptor that is not owner-bound have nothing fixed;
\* what is fixed does not change while the listener lives; and on every event
\* the callback gets what is fixed followed by (payload, tag, source).
C34_OwnerBinding ==
    /\ [][alive' \ alive # {} =>
              \A d \in AnySubscription, P \in Publishers, owner \in {"owner", "owner2"} :
                  (\E gc \in BOOLEAN : ESSubscribe(d, P, owner, gc)) =>
                      \A l \in alive' \ alive :
                          bound'[l] = IF BindOwner(d) THEN <<owner>> ELSE <<>>]_vars
    /\ [][\A l \in alive \cap alive' : bound'[l] = bound[l]]_vars
    /\ [](\A i \in DOMAIN stack : \A l \in Objs : \A k \in DOMAIN stack[i].calls[l] :
            CallbackArgs(l, stack[i].calls[l][k]) =
                IF BindOwner(callback[l])
                THEN <<bound[l][1], stack[i].message,
                       Publication(stack[i].pub).event_tag, stack[i].pub>>
                ELSE <<stack[i].message, Publication(stack[i].pub).event_tag, stack[i].pub>>)

\* C34 witness: one dispatch has called a listener of event1 bound for owner2
\* and a listener of event1 bound for owner; each callback got its own owner
\* first
C34_Witness ==
    /\ stack # <<>>
    /\ Finished(Top)
    /\ \E l1, l2 \in alive :
          /\ callback[l1] = "event1" /\ callback[l2] = "event1"
          /\ Top.calls[l1] # <<>> /\ Top.calls[l2] # <<>>
          /\ CallbackArgs(l1, Top.calls[l1][1])[1] = "owner2"
          /\ CallbackArgs(l2, Top.calls[l2][1])[1] = "owner"


\* the tags a subscription declares, as a list
DeclaredTags(self) ==
    IF IsList(self.event_tag) THEN self.event_tag[2] ELSE <<self.event_tag[2]>>

\* C35: _get_event_tags of a subscription returns a list as long as the declared
\* tag list; at every position an Enum member or int stays as it is, and every
\* other tag is replaced by hash(self), so all such tags of one subscription
\* resolve to the same tag.
C35_TagResolution ==
    \A n \in DOMAIN built :
        returned[n].call = "_get_event_tags" =>
            LET declared == DeclaredTags(built[n])
                resolved == returned[n].value
            IN  /\ Len(resolved) = Len(declared)
                /\ \A k \in DOMAIN declared :
                       resolved[k] = IF IsEnumOrInt(declared[k]) THEN declared[k]
                                     ELSE hash(built[n])
                /\ \A j, k \in DOMAIN declared :
                       (~IsEnumOrInt(declared[j]) /\ ~IsEnumOrInt(declared[k])) =>
                           resolved[j] = resolved[k]

\* C35 witness: subscription1, built with the list of the two strings, and
\* subscription2, built with an Enum member followed by the int, have both been
\* resolved
C35_Witness ==
    /\ DOMAIN built = SubscriptionNames
    /\ built["subscription1"].event_tag = <<"list", <<(<<"str", "a">>), (<<"str", "b">>)>> >>
    /\ built["subscription2"].event_tag = <<"list", <<(<<"Enum", "EVENT_1">>), (<<"int", "1">>)>> >>
    /\ returned["subscription1"].call = "_get_event_tags"
    /\ returned["subscription2"].call = "_get_event_tags"
    /\ returned["subscription1"].value[1] = returned["subscription1"].value[2]
    /\ returned["subscription2"].value = built["subscription2"].event_tag[2]

\* two tag lists with the same tags, each as often in one as in the other
IsPermutation(s, t) ==
    /\ Len(s) = Len(t)
    /\ \A x \in TagValues :
           Cardinality({k \in DOMAIN s : s[k] = x}) = Cardinality({k \in DOMAIN t : t[k] = x})

\* C36: two subscriptions built with the same publisher class and callback and
\* with tag lists that are permutations of each other return the same
\* event_tag_str and the same hash.
C36_OrderIndependent ==
    \A a, b \in DOMAIN built :
        (/\ built[a].publisher_class = built[b].publisher_class
         /\ built[a].callback = built[b].callback
         /\ IsList(built[a].event_tag) /\ IsList(built[b].event_tag)
         /\ IsPermutation(built[a].event_tag[2], built[b].event_tag[2])
         /\ returned[a].call = returned[b].call
         /\ returned[a].call \in {"event_tag_str", "__hash__"})
            => returned[a].value = returned[b].value

\* C36 witness: subscription1 built with the string b before the int and
\* subscription2 with the int before the string b, same class and callback, have
\* both been hashed, and both hashes hold the tag string with the int first
C36_Witness ==
    /\ DOMAIN built = SubscriptionNames
    /\ built["subscription1"].event_tag = <<"list", <<(<<"str", "b">>), (<<"int", "1">>)>> >>
    /\ built["subscription2"].event_tag = <<"list", <<(<<"int", "1">>), (<<"str", "b">>)>> >>
    /\ built["subscription1"].callback = built["subscription2"].callback
    /\ returned["subscription1"].call = "__hash__"
    /\ returned["subscription2"].call = "__hash__"
    /\ returned["subscription1"].value[3] = "[1, b]"
    /\ returned["subscription2"].value[3] = "[1, b]"

\* C37: add_listener and trigger_event called with a publication object that was
\* constructed separately, with the tag and payload type of the declared event1,
\* raise the invalid-publication error.
C37_SeparatePublicationRejected ==
    [][(\/ \E l \in Objs, gc \in BOOLEAN :
              MPAddListener(PublicationValue(InvalidPub), l, gc)
        \/ \E m \in Payloads : MPTriggerEvent(PublicationValue(InvalidPub), m))
           => error' = "InvalidPublication"]_vars

\* C38: remove_listener_with_callback(p, cb) leaves every other declared
\* publication q as it was: each live listener on q's publisher that something
\* keeps alive is still kept alive, alive and on q's publisher afterwards, so an
\* event of q still reaches it.
C38_RemovalFrame ==
    [][\A p \in GetEventDefinitions, cb \in Callbacks :
          MPRemoveListenerWithCallback(p, cb) =>
              \A q \in GetEventDefinitions \ {p} :
                  \A l \in listeners[PublisherOf(q)] \cap alive \cap Retained :
                      /\ l \in Retained'
                      /\ l \in alive'
                      /\ l \in listeners'[PublisherOf(q)]]_vars

\* C39: trigger_event(p, payload) of a MultiPublisher with a payload that is no
\* instance of p's payload type raises the invalid-event-type error, and starts
\* no dispatch, if p has an EventPublisher, and returns without error and without
\* effect if it has none.
C39_TypeCheckNeedsPublisher ==
    [][\A pub \in GetEventDefinitions, m \in Payloads :
          (~IsInstance(m, pub.event_class) /\ MPTriggerEvent(pub, m)) =>
              /\ error' = IF pub \in publishers THEN "InvalidEventType"
                          ELSE "trigger_event: no publisher"
              /\ UNCHANGED <<stack, listeners, publishers>>]_vars

\* C39 witness: event1 has an EventPublisher with a live listener, event2 has
\* none, and the last call, a trigger_event, raised the invalid-event-type error
\* with no dispatch started
C39_Witness ==
    /\ error = "InvalidEventType"
    /\ Event1Pub \in publishers
    /\ Event2Pub \notin publishers
    /\ listeners["P1"] \cap alive # {}
    /\ stack = <<>>
    /\ ntrig = [P \in Publishers |-> 0]

\* the pair is registered: added, and not removed since
Active(pair) == subreg[pair] \in {"once", "again", "afresh"}

\* C40: a descriptor added for two publishers has under each its own list of
\* listeners, one per tag, alive and on that publisher; remove_subscription(d, P)
\* leaves the list, the listeners and the listener set of the other publisher
\* as they are; afterwards events on P reach the handler through d no more and
\* events on the other publisher reach it once per tag as before.
C40_PerPublisher ==
    /\ [](\A d \in Descriptors :
            (HasEntry("P1", d) /\ HasEntry("P2", d)) =>
                /\ Range(subscribers["P1"][d]) \cap Range(subscribers["P2"][d]) = {}
                /\ \A P \in Publishers :
                      /\ Len(subscribers[P][d]) = Len(GetEventTags(d))
                      /\ Range(subscribers[P][d]) \subseteq listeners[P] \cap alive)
    /\ [][\A d \in Descriptors, P \in Publishers, Q \in Publishers :
            (Q # P /\ Removes(<<P, d>>) /\ HasEntry(Q, d)) =>
                /\ Q \in DOMAIN subscribers' /\ d \in DOMAIN subscribers'[Q]
                /\ subscribers'[Q][d] = subscribers[Q][d]
                /\ listeners'[Q] = listeners[Q]
                /\ Range(subscribers[Q][d]) \subseteq alive']_vars
    /\ [](\A d \in Descriptors, P \in Publishers, Q \in Publishers :
            (subreg[<<P, d>>] = "removed" /\ Active(<<Q, d>>)) =>
                /\ HasEntry(Q, d)
                /\ ReachedTimes(P, d, 0)
                /\ ReachedTimes(Q, d, Len(GetEventTags(d))))

\* C40 witness: event1 was added for P1 and P2 and removed from P1; P1 has no
\* listener left, and an event on P2 reached the handler through the listener
\* still stored for P2
C40_Witness ==
    /\ subreg[<<"P1", "event1">>] = "removed"
    /\ subreg[<<"P2", "event1">>] = "once"
    /\ listeners["P1"] = {}
    /\ HasEntry("P2", "event1")
    /\ Range(subscribers["P2"]["event1"]) \subseteq listeners["P2"] \cap alive
    /\ stack # <<>> /\ Finished(Top) /\ Top.pub = "P2"
    /\ Top.heard["event1"] = 1
====
